---- MODULE Spec2Model ----
(***************************************************************************)
(* Verification model of dygma-sdk-rs: the Focus API response framer and   *)
(* the run_command loop, the generated key-code tables, the Defy keymap    *)
(* layer conversion and the superkey wire block.                           *)
(*                                                                         *)
(* Text is modelled as a sequence of byte values (ASCII codes), so that    *)
(* line splitting, UTF-8 validation, lower-casing and decimal formatting   *)
(* are computed the way the code computes them.                            *)
(***************************************************************************)
EXTENDS Integers, Sequences, FiniteSets, TLC

VARIABLES
    task,       \* which operation is exercised
    input,      \* response parser: the text handed to response_parser
    parsed,     \* response parser: result of parsing `input`
    reparsed,   \* response parser: result of parsing `input` extended by the terminator
    responses,  \* response parser: the responses `input` is made of
    pc,         \* run_command: "start" | "sending" | "reading" | "done"
    buf,        \* run_command: accumulated bytes (`buf`)
    stream,     \* run_command: state of the chunk stream, "open" | "ended"
    result,     \* run_command: returned value
    retries,    \* run_command: the messages "data received is not utf8" logged
    reports,    \* run_command over HID: the output reports still to be written
    code_in,    \* key codes: the u16 handed to From<u16> for KeyKind
    key_kind,   \* key codes: the KeyKind at hand
    code_out,   \* key codes: u16::from(key_kind)
    text,       \* key codes: key_kind.to_string(), as Serialize writes it
    from_text,  \* key codes: text.parse::<KeyKind>(), as Deserialize reads it
    key_decoded, \* key codes: KeyKind::from(code_out), the encoded key decoded again
    raw_layers, \* keymap: the layers of the parsed flat data, 80 codes each
    keymap,     \* keymap: the DefyKeymap built from raw_layers
    layers_out, \* keymap: to_keymap_data() of every layer of keymap
    custom_data,    \* keymap: the outcome of keymap.to_keymap_custom_data()
    superkey_slots, \* superkeys: the u16 values of the wire block
    superkey_block, \* superkeys: the wire block, every value followed by a space
    superkey_map,   \* superkeys: the outcome of superkey_block.parse::<SuperkeyMap>()
    superkey_data,  \* superkeys: the outcome of to_superkey_map_data()
    superkey_str,   \* superkeys: the data joined by spaces, with a trailing space
    superkey_again, \* superkeys: the text of the first round, once it is parsed
                    \* again; of a constructed map, the map parsed back from its text
    command_data,   \* superkeys: the outcome of to_command_data::<512>()
    target_endian,  \* macros: the byte order of the build target, "little" | "big"
    macro_site,     \* macros: the action before which bytes are inserted
    macro_clean,    \* macros: the macro memory as text
    macro_input,    \* macros: the macro memory with the inserted bytes
    action_parsed,  \* macros: the outcome of action_parser at the inserted bytes
    macros_clean,   \* macros: the outcome of parse_macros(macro_clean)
    macros_parsed,  \* macros: the outcome of parse_macros(macro_input)
    answers,    \* connection: the device's responses to the commands still to be sent
    wire,       \* connection: the bytes the device has sent that no call has read
    written,    \* connection: the commands written to the connection
    returned    \* connection: the results of the calls that have returned

framerVars == <<input, parsed, reparsed, responses>>
runVars == <<pc, buf, stream, result, retries, reports>>
keyVars == <<code_in, key_kind, code_out, text, from_text, key_decoded>>
keymapVars == <<raw_layers, keymap, layers_out, custom_data>>
superkeyVars ==
    <<superkey_slots, superkey_block, superkey_map, superkey_data, superkey_str,
      superkey_again, command_data>>
macroVars ==
    <<target_endian, macro_site, macro_clean, macro_input, action_parsed,
      macros_clean, macros_parsed>>
connVars == <<answers, wire, written, returned>>
vars ==
    <<task, framerVars, runVars, keyVars, keymapVars, superkeyVars, macroVars,
      connVars>>

exceptFramer == <<runVars, keyVars, keymapVars, superkeyVars, macroVars, connVars>>
exceptRun == <<framerVars, keyVars, keymapVars, superkeyVars, macroVars, connVars>>
exceptKeys == <<framerVars, runVars, keymapVars, superkeyVars, macroVars, connVars>>
exceptKeymap == <<framerVars, runVars, keyVars, superkeyVars, macroVars, connVars>>
exceptSuperkeys == <<framerVars, runVars, keyVars, keymapVars, macroVars, connVars>>
exceptMacros == <<framerVars, runVars, keyVars, keymapVars, superkeyVars, connVars>>
exceptConnection == <<framerVars, keyVars, keymapVars, superkeyVars, macroVars>>

\* the value of a variable no step has set
NotRun == [tag |-> "NotRun"]

\* the variables of the operations that are not exercised
FramerIdle == input = <<>> /\ parsed = NotRun /\ reparsed = NotRun /\ responses = <<>>
RunIdle ==
    pc = "idle" /\ buf = <<>> /\ stream = "idle" /\ result = NotRun
    /\ retries = 0 /\ reports = 0
KeysIdle ==
    code_in = <<>> /\ key_kind = <<>> /\ code_out = <<>> /\ text = <<>> /\ from_text = <<>>
    /\ key_decoded = <<>>
KeymapIdle == raw_layers = <<>> /\ keymap = <<>> /\ layers_out = <<>> /\ custom_data = <<>>
SuperkeysIdle ==
    /\ superkey_slots = <<>> /\ superkey_block = <<>>
    /\ superkey_map = <<>> /\ superkey_data = <<>> /\ superkey_str = <<>>
    /\ superkey_again = <<>> /\ command_data = <<>>
MacrosIdle ==
    /\ target_endian = "none" /\ macro_site = <<>> /\ macro_clean = <<>>
    /\ macro_input = <<>> /\ action_parsed = <<>>
    /\ macros_clean = <<>> /\ macros_parsed = <<>>
ConnectionIdle == answers = <<>> /\ wire = <<>> /\ written = <<>> /\ returned = <<>>

----------------------------------------------------------------------------
(* Characters *)

CR == 13
LF == 10
Dot == 46
Space == 32
LetterA == 97

\* The value of an Option that is None.
None == <<>>
Some(x) == <<x>>

----------------------------------------------------------------------------
(* Bounds of the response-parser and run_command exploration *)

\* longest text handed to the response parser
MaxInputLen == 7
\* most bytes a modelled chunk stream delivers
MaxStreamLen == 5
\* longest single chunk
MaxChunkLen == 2

\* bytes the modelled device can send: a letter, '.', CR, LF
FramerAlphabet == {LetterA, Dot, CR, LF}

\* the two bytes of a two-byte UTF-8 code point (U+00E9)
Utf8Lead == 195
Utf8Cont == 169

\* bytes a chunk of the modelled stream is made of
StreamAlphabet == FramerAlphabet \cup {Utf8Lead, Utf8Cont}

RECURSIVE SeqsUpTo(_, _)
SeqsUpTo(S, n) ==
    IF n = 0 THEN {<<>>}
    ELSE LET shorter == SeqsUpTo(S, n - 1)
         IN  shorter \cup {Append(s, x) : s \in {t \in shorter : Len(t) = n - 1}, x \in S}

----------------------------------------------------------------------------
(* Response parser (winnow, Partial input) *)

Drop(s, n) == SubSeq(s, n + 1, Len(s))

\* index of the first CR or LF of s, 0 when there is none
RECURSIVE FirstLineEnding(_, _)
FirstLineEnding(s, i) ==
    IF i > Len(s) THEN 0
    ELSE IF s[i] \in {CR, LF} THEN i
    ELSE FirstLineEnding(s, i + 1)

\* terminated(till_line_ending, line_ending) on Partial input
line_parser(s) ==
    LET i == FirstLineEnding(s, 1)
    IN  IF i = 0 THEN [tag |-> "Incomplete"]
        ELSE IF s[i] = LF
             THEN [tag |-> "Ok", out |-> SubSeq(s, 1, i - 1), rest |-> Drop(s, i)]
        ELSE IF i = Len(s) THEN [tag |-> "Incomplete"]
        ELSE IF s[i + 1] = LF
             THEN [tag |-> "Ok", out |-> SubSeq(s, 1, i - 1), rest |-> Drop(s, i + 1)]
        ELSE [tag |-> "Backtrack"]

\* the literal "." on Partial input
terminator_parser(s) ==
    IF s = <<>> THEN [tag |-> "Incomplete"]
    ELSE IF s[1] = Dot THEN [tag |-> "Ok", rest |-> Drop(s, 1)]
    ELSE [tag |-> "Backtrack"]

\* LineAccumulator::accumulate
accumulate(acc, line) ==
    IF acc = <<>> THEN line ELSE acc \o <<LF>> \o line

\* the `for count in min..=max` loop of repeat_till: terminator first, else one more line
RECURSIVE repeat_till_loop(_, _)
repeat_till_loop(acc, s) ==
    LET t == terminator_parser(s)
    IN  IF t.tag = "Ok" THEN [tag |-> "Ok", out |-> acc, rest |-> t.rest]
        ELSE IF t.tag = "Incomplete" THEN [tag |-> "Incomplete"]
        ELSE LET l == line_parser(s)
             IN  IF l.tag = "Ok" THEN repeat_till_loop(accumulate(acc, l.out), l.rest)
                 ELSE [tag |-> l.tag]

\* repeat_till(1.., line_parser, "."): one mandatory line, then the loop
response_parser(s) ==
    LET l == line_parser(s)
    IN  IF l.tag = "Ok" THEN repeat_till_loop(accumulate(<<>>, l.out), l.rest)
        ELSE [tag |-> l.tag]

\* ParseResponseError::from_winnow_err and Response::from_str
ResponseFromStr(s) ==
    LET r == response_parser(s)
    IN  IF r.tag = "Ok" THEN [tag |-> "Ok", out |-> r.out]
        ELSE IF r.tag = "Incomplete" THEN [tag |-> "Incomplete"]
        ELSE [tag |-> "Err"]

----------------------------------------------------------------------------
(* Specification of the response parser: a text is chosen and parsed, then  *)
(* parsed again once the terminator has been appended.                     *)

InitFramer ==
    /\ task = "framer"
    /\ input \in SeqsUpTo(FramerAlphabet, MaxInputLen)
    /\ parsed = NotRun
    /\ reparsed = NotRun
    /\ responses = <<>>
    /\ RunIdle /\ KeysIdle /\ KeymapIdle /\ SuperkeysIdle /\ MacrosIdle
    /\ ConnectionIdle

Parse ==
    /\ task = "framer"
    /\ parsed = NotRun
    /\ parsed' = ResponseFromStr(input)
    /\ UNCHANGED <<task, input, reparsed, responses, exceptFramer>>

ParseWithTerminator ==
    /\ task = "framer"
    /\ parsed # NotRun
    /\ reparsed = NotRun
    /\ reparsed' = ResponseFromStr(input \o <<Dot>>)
    /\ UNCHANGED <<task, input, parsed, responses, exceptFramer>>

NextFramer == Parse \/ ParseWithTerminator

SpecFramer == InitFramer /\ [][NextFramer]_vars

(* Specification of the parse of responses back to back: two responses are *)
(* written one after the other and response_parser is applied once.        *)

\* most lines of a chosen response
MaxResponseLines == 2

\* the lines of the chosen responses: an empty line, a letter, a line that
\* begins with '.', a line that ends with '.'
ResponseLines == {<<>>, <<LetterA>>, <<Dot, LetterA>>, <<LetterA, Dot>>}

\* the line endings line_ending accepts
LineEndings == {<<CR, LF>>, <<LF>>}

\* the chosen responses: one line or more, all with the same line ending
ChosenResponses ==
    {[lines |-> lines, ending |-> ending] :
        lines \in {l \in SeqsUpTo(ResponseLines, MaxResponseLines) : l # <<>>},
        ending \in LineEndings}

\* a response as the device writes it: the lines, then the terminator
RECURSIVE ResponseText(_, _)
ResponseText(response, i) ==
    IF i > Len(response.lines) THEN <<Dot>>
    ELSE response.lines[i] \o response.ending \o ResponseText(response, i + 1)

InitResponses ==
    /\ task = "responses"
    /\ responses \in {<<first, second>> :
                         first \in ChosenResponses, second \in ChosenResponses}
    /\ input = ResponseText(responses[1], 1) \o ResponseText(responses[2], 1)
    /\ parsed = NotRun
    /\ reparsed = NotRun
    /\ RunIdle /\ KeysIdle /\ KeymapIdle /\ SuperkeysIdle /\ MacrosIdle
    /\ ConnectionIdle

\* response_parser(&mut input): the response and the input left
ParseFirstResponse ==
    /\ task = "responses"
    /\ parsed = NotRun
    /\ parsed' = response_parser(input)
    /\ UNCHANGED <<task, input, reparsed, responses, exceptFramer>>

NextResponses == ParseFirstResponse

SpecResponses == InitResponses /\ [][NextResponses]_vars

----------------------------------------------------------------------------
(* run_command of SerialPortFocusApi: send the command, then read chunks   *)
(* until the accumulated buffer parses as a response.                      *)

IsCont(b) == b \in 128..191

\* str::from_utf8: well-formed UTF-8 byte sequences only
RECURSIVE Utf8From(_, _)
Utf8From(s, i) ==
    IF i > Len(s) THEN TRUE
    ELSE LET b == s[i]
             n == Len(s)
             Second(lo, hi) == i + 1 <= n /\ s[i + 1] \in lo..hi
             ContAt(k) == i + k <= n /\ IsCont(s[i + k])
         IN  IF b < 128 THEN Utf8From(s, i + 1)
             ELSE IF b \in 194..223 THEN ContAt(1) /\ Utf8From(s, i + 2)
             ELSE IF b = 224 THEN Second(160, 191) /\ ContAt(2) /\ Utf8From(s, i + 3)
             ELSE IF b = 237 THEN Second(128, 159) /\ ContAt(2) /\ Utf8From(s, i + 3)
             ELSE IF b \in 225..239 THEN ContAt(1) /\ ContAt(2) /\ Utf8From(s, i + 3)
             ELSE IF b = 240
                  THEN Second(144, 191) /\ ContAt(2) /\ ContAt(3) /\ Utf8From(s, i + 4)
             ELSE IF b \in 241..243
                  THEN ContAt(1) /\ ContAt(2) /\ ContAt(3) /\ Utf8From(s, i + 4)
             ELSE IF b = 244
                  THEN Second(128, 143) /\ ContAt(2) /\ ContAt(3) /\ Utf8From(s, i + 4)
             ELSE FALSE

from_utf8(s) == Utf8From(s, 1)

\* LoopOutcome with a slip: an Incomplete parse ends the call with the
\* stream-terminated error instead of reading on
LoopOutcome_GivesUpOnIncomplete(b) ==
    IF ~from_utf8(b) THEN [tag |-> "Continue", logged |-> TRUE]
    ELSE LET r == ResponseFromStr(b)
         IN  IF r.tag = "Ok" THEN [tag |-> "Return", value |-> [tag |-> "Ok", out |-> r.out]]
             ELSE IF r.tag = "Incomplete"
                  THEN [tag |-> "Return",
                        value |-> [tag |-> "ResponseStreamTerminatedPrematurely"]]
             ELSE [tag |-> "Return", value |-> [tag |-> "UnexpectedResponse"]]

\* LoopOutcome with a slip: bytes that are not UTF-8 end the call with
\* UnexpectedResponse instead of being kept until more bytes arrive
LoopOutcome_ErrsOnInvalidUtf8(b) ==
    IF ~from_utf8(b) THEN [tag |-> "Return", value |-> [tag |-> "UnexpectedResponse"]]
    ELSE LET r == ResponseFromStr(b)
         IN  IF r.tag = "Ok" THEN [tag |-> "Return", value |-> [tag |-> "Ok", out |-> r.out]]
             ELSE IF r.tag = "Incomplete" THEN [tag |-> "Continue", logged |-> FALSE]
             ELSE [tag |-> "Return", value |-> [tag |-> "UnexpectedResponse"]]

\* the body of the `while let Some(chunk_res)` loop for one Ok chunk:
\* what the loop does with the accumulated buffer b (`logged`: the debug!
\* message of the buffer that is not UTF-8 is written)
LoopOutcome(b) ==
    IF ~from_utf8(b) THEN [tag |-> "Continue", logged |-> TRUE]
    ELSE LET r == ResponseFromStr(b)
         IN  IF r.tag = "Ok" THEN [tag |-> "Return", value |-> [tag |-> "Ok", out |-> r.out]]
             ELSE IF r.tag = "Incomplete" THEN [tag |-> "Continue", logged |-> FALSE]
             ELSE [tag |-> "Return", value |-> [tag |-> "UnexpectedResponse"]]

Chunks == SeqsUpTo(StreamAlphabet, MaxChunkLen) \ {<<>>}

InitRun ==
    /\ task = "run_command"
    /\ pc = "start" /\ buf = <<>> /\ stream = "open" /\ result = NotRun
    /\ retries = 0 /\ reports = 0
    /\ FramerIdle /\ KeysIdle /\ KeymapIdle /\ SuperkeysIdle /\ MacrosIdle
    /\ ConnectionIdle

\* port.write_all(...) succeeds
SendCommand ==
    /\ task = "run_command" /\ pc = "start"
    /\ pc' = "reading"
    /\ UNCHANGED <<task, exceptRun, buf, stream, result, retries, reports>>

\* port.write_all(...) fails
SendCommandFails ==
    /\ task = "run_command" /\ pc = "start"
    /\ pc' = "done"
    /\ result' = [tag |-> "SendingCommand"]
    /\ UNCHANGED <<task, exceptRun, buf, stream, retries, reports>>

\* stream.next() yields Some(Ok(chunk))
ReceiveChunk ==
    /\ task = "run_command" /\ pc = "reading" /\ stream = "open"
    /\ \E chunk \in Chunks :
        /\ Len(buf) + Len(chunk) <= MaxStreamLen
        /\ buf' = buf \o chunk
        /\ LET o == LoopOutcome(buf')
           IN  IF o.tag = "Continue"
               THEN /\ retries' = IF o.logged THEN retries + 1 ELSE retries
                    /\ UNCHANGED <<pc, result>>
               ELSE pc' = "done" /\ result' = o.value /\ UNCHANGED retries
    /\ UNCHANGED <<task, exceptRun, stream, reports>>

\* stream.next() yields Some(Err(_))
ReceiveError ==
    /\ task = "run_command" /\ pc = "reading" /\ stream = "open"
    /\ pc' = "done"
    /\ result' = [tag |-> "RecievingResponse"]
    /\ UNCHANGED <<task, exceptRun, buf, stream, retries, reports>>

\* stream.next() yields None: the loop is left and the error after it returned
StreamEnd ==
    /\ task = "run_command" /\ pc = "reading" /\ stream = "open"
    /\ stream' = "ended"
    /\ pc' = "done"
    /\ result' = [tag |-> "ResponseStreamTerminatedPrematurely"]
    /\ UNCHANGED <<task, exceptRun, buf, retries, reports>>

NextRun == SendCommand \/ SendCommandFails \/ ReceiveChunk \/ ReceiveError \/ StreamEnd

SpecRun == InitRun /\ [][NextRun]_vars

(* run_command of HidFocusApi: write the command as output reports, then   *)
(* read input reports until the accumulated bytes parse as a response.     *)

\* most output reports the modelled command is written as
MaxReports == 2

\* most messages "data received is not utf8" of a modelled call over HID
MaxRetries == 3

\* the body of the read loop in which bytes that are not UTF-8 end the call
\* with UnexpectedResponse
HidLoopOutcome_ErrsOnInvalidUtf8(res) ==
    IF ~from_utf8(res) THEN [tag |-> "Return", value |-> [tag |-> "UnexpectedResponse"]]
    ELSE LET r == ResponseFromStr(res)
         IN  IF r.tag = "Ok" THEN [tag |-> "Return", value |-> [tag |-> "Ok", out |-> r.out]]
             ELSE IF r.tag = "Incomplete" THEN [tag |-> "Continue", logged |-> FALSE]
             ELSE [tag |-> "Return", value |-> [tag |-> "UnexpectedResponse"]]

\* the body of the read loop after res.extend_from_slice: what the loop does
\* with the accumulated bytes res
HidLoopOutcome(res) ==
    IF ~from_utf8(res) THEN [tag |-> "Continue", logged |-> TRUE]
    ELSE LET r == ResponseFromStr(res)
         IN  IF r.tag = "Ok" THEN [tag |-> "Return", value |-> [tag |-> "Ok", out |-> r.out]]
             ELSE IF r.tag = "Incomplete" THEN [tag |-> "Continue", logged |-> FALSE]
             ELSE [tag |-> "Return", value |-> [tag |-> "UnexpectedResponse"]]

\* the bytes of an input report after the report id: none, or a chunk
ReportPayloads == Chunks \cup {<<>>}

\* data_to_send.chunks(MAX_SEND_SIZE) yields `reports` chunks
InitHidRun ==
    /\ task = "hid_run_command"
    /\ pc = "sending" /\ buf = <<>> /\ stream = "idle" /\ result = NotRun
    /\ retries = 0 /\ reports \in 1..MaxReports
    /\ FramerIdle /\ KeysIdle /\ KeymapIdle /\ SuperkeysIdle /\ MacrosIdle
    /\ ConnectionIdle

\* write_output_report(...) succeeds
WriteOutputReport ==
    /\ task = "hid_run_command" /\ pc = "sending"
    /\ reports' = reports - 1
    /\ pc' = IF reports = 1 THEN "reading" ELSE "sending"
    /\ UNCHANGED <<task, exceptRun, buf, stream, result, retries>>

\* write_output_report(...) fails
WriteOutputReportFails ==
    /\ task = "hid_run_command" /\ pc = "sending"
    /\ pc' = "done"
    /\ result' = [tag |-> "SendingCommand"]
    /\ UNCHANGED <<task, exceptRun, buf, stream, retries, reports>>

\* read_input_report(...) yields a report: the report id and a payload
ReadInputReport ==
    /\ task = "hid_run_command" /\ pc = "reading"
    /\ \E payload \in ReportPayloads :
        /\ Len(buf) + Len(payload) <= MaxStreamLen
        /\ buf' = buf \o payload
        /\ LET o == HidLoopOutcome(buf')
           IN  IF o.tag = "Continue"
               THEN /\ o.logged => retries < MaxRetries
                    /\ retries' = IF o.logged THEN retries + 1 ELSE retries
                    /\ UNCHANGED <<pc, result>>
               ELSE pc' = "done" /\ result' = o.value /\ UNCHANGED retries
    /\ UNCHANGED <<task, exceptRun, stream, reports>>

\* read_input_report(...) fails
ReadInputReportFails ==
    /\ task = "hid_run_command" /\ pc = "reading"
    /\ pc' = "done"
    /\ result' = [tag |-> "RecievingResponse"]
    /\ UNCHANGED <<task, exceptRun, buf, stream, retries, reports>>

NextHidRun ==
    \/ WriteOutputReport \/ WriteOutputReportFails
    \/ ReadInputReport \/ ReadInputReportFails

\* run_command over either transport
InitRunCommands == InitRun \/ InitHidRun

NextRunCommands == NextRun \/ NextHidRun

SpecRunCommands == InitRunCommands /\ [][NextRunCommands]_vars

----------------------------------------------------------------------------
(* Calls of run_command one after the other on one connection. The device  *)
(* answers every command with its body lines, the terminator "." and a     *)
(* line ending; the bytes a call leaves unread are read by the next call.  *)

\* most calls on a modelled connection
MaxCalls == 2
\* most body lines of an answer
MaxAnswerLines == 1

\* the body lines of the answers: an empty line, a letter, a code point of
\* two bytes, and lines that begin with '.'
AnswerLines ==
    {<<>>, <<LetterA>>, <<Utf8Lead, Utf8Cont>>, <<Dot, LetterA>>,
     <<Dot, Utf8Lead, Utf8Cont>>}

\* the answers: the body lines of each, none included
Answers == SeqsUpTo(AnswerLines, MaxAnswerLines)

\* an answer as the device writes it: every body line with its line ending,
\* then the terminator line
RECURSIVE AnswerText(_)
AnswerText(lines) ==
    IF lines = <<>> THEN <<Dot, CR, LF>>
    ELSE Head(lines) \o <<CR, LF>> \o AnswerText(Tail(lines))

Connections == {"serial_connection", "hid_connection"}

\* the body of the read loop of the connection at hand
ConnectionLoopOutcome(b) ==
    IF task = "hid_connection" THEN HidLoopOutcome(b) ELSE LoopOutcome(b)

InitConnection ==
    /\ task \in Connections
    /\ answers \in {a \in SeqsUpTo(Answers, MaxCalls) : a # <<>>}
    /\ wire = <<>> /\ written = <<>> /\ returned = <<>>
    /\ pc = "start" /\ buf = <<>> /\ stream = "open" /\ result = NotRun
    /\ retries = 0 /\ reports = 0
    /\ FramerIdle /\ KeysIdle /\ KeymapIdle /\ SuperkeysIdle /\ MacrosIdle

\* run_command is called and writes the command (write_all, or the output
\* reports); the device sends its answer to it
CallRunCommand ==
    /\ task \in Connections /\ pc = "start"
    /\ Len(written) < Len(answers)
    /\ written' = Append(written, Len(written) + 1)
    /\ wire' = wire \o AnswerText(answers[Len(written) + 1])
    /\ pc' = "reading" /\ buf' = <<>> /\ result' = NotRun
    /\ UNCHANGED <<task, exceptConnection, stream, retries, reports>>
    /\ UNCHANGED <<answers, returned>>

\* stream.next() yields a chunk, or read_input_report an input report: some
\* of the bytes the device has sent, in order; a call that returns leaves
\* the bytes it has not read to the next call
ReadSentBytes ==
    /\ task \in Connections /\ pc = "reading"
    /\ \E n \in 1..Len(wire) :
        /\ buf' = buf \o SubSeq(wire, 1, n)
        /\ wire' = SubSeq(wire, n + 1, Len(wire))
        /\ LET o == ConnectionLoopOutcome(buf')
           IN  IF o.tag = "Continue"
               THEN /\ retries' = IF o.logged THEN retries + 1 ELSE retries
                    /\ UNCHANGED <<pc, result, returned>>
               ELSE /\ pc' = "start" /\ result' = o.value
                    /\ returned' = Append(returned, o.value)
                    /\ UNCHANGED retries
    /\ UNCHANGED <<task, exceptConnection, stream, reports>>
    /\ UNCHANGED <<answers, written>>

NextConnection == CallRunCommand \/ ReadSentBytes

SpecConnection == InitConnection /\ [][NextConnection]_vars

\* the read loop is run whenever the device has sent bytes: the runtime
\* wakes the call when the port or the HID device is readable
SpecConnectionLive == SpecConnection /\ WF_vars(ReadSentBytes)

----------------------------------------------------------------------------
(* Key-code tables: the declaration handed to generate_keycode_tables!     *)
(* (names and doc comments as ASCII codes; a doc comment keeps its leading  *)
(* space, as the attribute value does).                                    *)

KeyTables == <<
    [name |-> "blank", with_modifiers |-> FALSE, with_dual_functions |-> FALSE, keys |-> <<
        \* /// No Key | NoKey = 0
        [name |-> <<78, 111, 75, 101, 121>>, doc |-> Some(<<32, 78, 111, 32, 75, 101, 121>>), code |-> Some(0)],
        \* Transparent = 65535
        [name |-> <<84, 114, 97, 110, 115, 112, 97, 114, 101, 110, 116>>, doc |-> None, code |-> Some(65535)]
    >>],
    [name |-> "spacing", with_modifiers |-> TRUE, with_dual_functions |-> TRUE, keys |-> <<
        \* Enter = 40
        [name |-> <<69, 110, 116, 101, 114>>, doc |-> None, code |-> Some(40)],
        \* Escape
        [name |-> <<69, 115, 99, 97, 112, 101>>, doc |-> None, code |-> None],
        \* Backspace
        [name |-> <<66, 97, 99, 107, 115, 112, 97, 99, 101>>, doc |-> None, code |-> None],
        \* Tab
        [name |-> <<84, 97, 98>>, doc |-> None, code |-> None],
        \* Space
        [name |-> <<83, 112, 97, 99, 101>>, doc |-> None, code |-> None],
        \* Insert = 73
        [name |-> <<73, 110, 115, 101, 114, 116>>, doc |-> None, code |-> Some(73)],
        \* Delete = 76
        [name |-> <<68, 101, 108, 101, 116, 101>>, doc |-> None, code |-> Some(76)]
    >>],
    [name |-> "alpha", with_modifiers |-> TRUE, with_dual_functions |-> TRUE, keys |-> <<
        \* A = 4
        [name |-> <<65>>, doc |-> None, code |-> Some(4)],
        \* B
        [name |-> <<66>>, doc |-> None, code |-> None],
        \* C
        [name |-> <<67>>, doc |-> None, code |-> None],
        \* D
        [name |-> <<68>>, doc |-> None, code |-> None],
        \* E
        [name |-> <<69>>, doc |-> None, code |-> None],
        \* F
        [name |-> <<70>>, doc |-> None, code |-> None],
        \* G
        [name |-> <<71>>, doc |-> None, code |-> None],
        \* H
        [name |-> <<72>>, doc |-> None, code |-> None],
        \* I
        [name |-> <<73>>, doc |-> None, code |-> None],
        \* J
        [name |-> <<74>>, doc |-> None, code |-> None],
        \* K
        [name |-> <<75>>, doc |-> None, code |-> None],
        \* L
        [name |-> <<76>>, doc |-> None, code |-> None],
        \* M
        [name |-> <<77>>, doc |-> None, code |-> None],
        \* N
        [name |-> <<78>>, doc |-> None, code |-> None],
        \* O
        [name |-> <<79>>, doc |-> None, code |-> None],
        \* P
        [name |-> <<80>>, doc |-> None, code |-> None],
        \* Q
        [name |-> <<81>>, doc |-> None, code |-> None],
        \* R
        [name |-> <<82>>, doc |-> None, code |-> None],
        \* S
        [name |-> <<83>>, doc |-> None, code |-> None],
        \* T
        [name |-> <<84>>, doc |-> None, code |-> None],
        \* U
        [name |-> <<85>>, doc |-> None, code |-> None],
        \* V
        [name |-> <<86>>, doc |-> None, code |-> None],
        \* W
        [name |-> <<87>>, doc |-> None, code |-> None],
        \* X
        [name |-> <<88>>, doc |-> None, code |-> None],
        \* Y
        [name |-> <<89>>, doc |-> None, code |-> None],
        \* Z
        [name |-> <<90>>, doc |-> None, code |-> None]
    >>],
    [name |-> "digits", with_modifiers |-> TRUE, with_dual_functions |-> TRUE, keys |-> <<
        \* /// 1 | One = 30
        [name |-> <<79, 110, 101>>, doc |-> Some(<<32, 49>>), code |-> Some(30)],
        \* /// 2 | Two
        [name |-> <<84, 119, 111>>, doc |-> Some(<<32, 50>>), code |-> None],
        \* /// 3 | Three
        [name |-> <<84, 104, 114, 101, 101>>, doc |-> Some(<<32, 51>>), code |-> None],
        \* /// 4 | Four
        [name |-> <<70, 111, 117, 114>>, doc |-> Some(<<32, 52>>), code |-> None],
        \* /// 5 | Five
        [name |-> <<70, 105, 118, 101>>, doc |-> Some(<<32, 53>>), code |-> None],
        \* /// Six | Six
        [name |-> <<83, 105, 120>>, doc |-> Some(<<32, 83, 105, 120>>), code |-> None],
        \* /// 7 | Seven
        [name |-> <<83, 101, 118, 101, 110>>, doc |-> Some(<<32, 55>>), code |-> None],
        \* /// 8 | Eight
        [name |-> <<69, 105, 103, 104, 116>>, doc |-> Some(<<32, 56>>), code |-> None],
        \* /// 9 | Nine
        [name |-> <<78, 105, 110, 101>>, doc |-> Some(<<32, 57>>), code |-> None],
        \* /// 0 | Zero
        [name |-> <<90, 101, 114, 111>>, doc |-> Some(<<32, 48>>), code |-> None]
    >>],
    [name |-> "numpad", with_modifiers |-> TRUE, with_dual_functions |-> TRUE, keys |-> <<
        \* /// Num Lock | NumLock = 83
        [name |-> <<78, 117, 109, 76, 111, 99, 107>>, doc |-> Some(<<32, 78, 117, 109, 32, 76, 111, 99, 107>>), code |-> Some(83)],
        \* /// Numpad / | Divide
        [name |-> <<68, 105, 118, 105, 100, 101>>, doc |-> Some(<<32, 78, 117, 109, 112, 97, 100, 32, 47>>), code |-> None],
        \* /// Numpad * | Times
        [name |-> <<84, 105, 109, 101, 115>>, doc |-> Some(<<32, 78, 117, 109, 112, 97, 100, 32, 42>>), code |-> None],
        \* /// Numpad - | Minus
        [name |-> <<77, 105, 110, 117, 115>>, doc |-> Some(<<32, 78, 117, 109, 112, 97, 100, 32, 45>>), code |-> None],
        \* /// Numpad + | Add
        [name |-> <<65, 100, 100>>, doc |-> Some(<<32, 78, 117, 109, 112, 97, 100, 32, 43>>), code |-> None],
        \* /// Numpad Enter | Enter
        [name |-> <<69, 110, 116, 101, 114>>, doc |-> Some(<<32, 78, 117, 109, 112, 97, 100, 32, 69, 110, 116, 101, 114>>), code |-> None],
        \* /// Numpad 1 | One
        [name |-> <<79, 110, 101>>, doc |-> Some(<<32, 78, 117, 109, 112, 97, 100, 32, 49>>), code |-> None],
        \* /// Numpad 2 | Two
        [name |-> <<84, 119, 111>>, doc |-> Some(<<32, 78, 117, 109, 112, 97, 100, 32, 50>>), code |-> None],
        \* /// Numpad 3 | Three
        [name |-> <<84, 104, 114, 101, 101>>, doc |-> Some(<<32, 78, 117, 109, 112, 97, 100, 32, 51>>), code |-> None],
        \* /// Numpad 4 | Four
        [name |-> <<70, 111, 117, 114>>, doc |-> Some(<<32, 78, 117, 109, 112, 97, 100, 32, 52>>), code |-> None],
        \* /// Numpad 5 | Five
        [name |-> <<70, 105, 118, 101>>, doc |-> Some(<<32, 78, 117, 109, 112, 97, 100, 32, 53>>), code |-> None],
        \* /// Numpad 6 | Six
        [name |-> <<83, 105, 120>>, doc |-> Some(<<32, 78, 117, 109, 112, 97, 100, 32, 54>>), code |-> None],
        \* /// Numpad 7 | Seven
        [name |-> <<83, 101, 118, 101, 110>>, doc |-> Some(<<32, 78, 117, 109, 112, 97, 100, 32, 55>>), code |-> None],
        \* /// Numpad 8 | Eight
        [name |-> <<69, 105, 103, 104, 116>>, doc |-> Some(<<32, 78, 117, 109, 112, 97, 100, 32, 56>>), code |-> None],
        \* /// Numpad 9 | Nine
        [name |-> <<78, 105, 110, 101>>, doc |-> Some(<<32, 78, 117, 109, 112, 97, 100, 32, 57>>), code |-> None],
        \* /// Numpad 0 | Zero
        [name |-> <<90, 101, 114, 111>>, doc |-> Some(<<32, 78, 117, 109, 112, 97, 100, 32, 48>>), code |-> None],
        \* /// Numpad . | Period
        [name |-> <<80, 101, 114, 105, 111, 100>>, doc |-> Some(<<32, 78, 117, 109, 112, 97, 100, 32, 46>>), code |-> None]
    >>],
    [name |-> "fx", with_modifiers |-> TRUE, with_dual_functions |-> TRUE, keys |-> <<
        \* F1 = 58
        [name |-> <<70, 49>>, doc |-> None, code |-> Some(58)],
        \* F2
        [name |-> <<70, 50>>, doc |-> None, code |-> None],
        \* F3
        [name |-> <<70, 51>>, doc |-> None, code |-> None],
        \* F4
        [name |-> <<70, 52>>, doc |-> None, code |-> None],
        \* F5
        [name |-> <<70, 53>>, doc |-> None, code |-> None],
        \* F6
        [name |-> <<70, 54>>, doc |-> None, code |-> None],
        \* F7
        [name |-> <<70, 55>>, doc |-> None, code |-> None],
        \* F8
        [name |-> <<70, 56>>, doc |-> None, code |-> None],
        \* F9
        [name |-> <<70, 57>>, doc |-> None, code |-> None],
        \* F10
        [name |-> <<70, 49, 48>>, doc |-> None, code |-> None],
        \* F11
        [name |-> <<70, 49, 49>>, doc |-> None, code |-> None],
        \* F12
        [name |-> <<70, 49, 50>>, doc |-> None, code |-> None],
        \* F13 = 104
        [name |-> <<70, 49, 51>>, doc |-> None, code |-> Some(104)],
        \* F14
        [name |-> <<70, 49, 52>>, doc |-> None, code |-> None],
        \* F15
        [name |-> <<70, 49, 53>>, doc |-> None, code |-> None],
        \* F16
        [name |-> <<70, 49, 54>>, doc |-> None, code |-> None],
        \* F17
        [name |-> <<70, 49, 55>>, doc |-> None, code |-> None],
        \* F18
        [name |-> <<70, 49, 56>>, doc |-> None, code |-> None],
        \* F19
        [name |-> <<70, 49, 57>>, doc |-> None, code |-> None],
        \* F20
        [name |-> <<70, 50, 48>>, doc |-> None, code |-> None],
        \* F21
        [name |-> <<70, 50, 49>>, doc |-> None, code |-> None],
        \* F22
        [name |-> <<70, 50, 50>>, doc |-> None, code |-> None],
        \* F23
        [name |-> <<70, 50, 51>>, doc |-> None, code |-> None],
        \* F24
        [name |-> <<70, 50, 52>>, doc |-> None, code |-> None]
    >>],
    [name |-> "symbols", with_modifiers |-> TRUE, with_dual_functions |-> TRUE, keys |-> <<
        \* /// `-`` | Dash = 45
        [name |-> <<68, 97, 115, 104>>, doc |-> Some(<<32, 96, 45, 96, 96>>), code |-> Some(45)],
        \* /// `=` | Equals
        [name |-> <<69, 113, 117, 97, 108, 115>>, doc |-> Some(<<32, 96, 61, 96>>), code |-> None],
        \* /// `[` | BracketLeft
        [name |-> <<66, 114, 97, 99, 107, 101, 116, 76, 101, 102, 116>>, doc |-> Some(<<32, 96, 91, 96>>), code |-> None],
        \* /// `]` | BracketRight
        [name |-> <<66, 114, 97, 99, 107, 101, 116, 82, 105, 103, 104, 116>>, doc |-> Some(<<32, 96, 93, 96>>), code |-> None],
        \* /// `\` | Backslash
        [name |-> <<66, 97, 99, 107, 115, 108, 97, 115, 104>>, doc |-> Some(<<32, 96, 92, 96>>), code |-> None],
        \* /// `;` | Semicolon = 51
        [name |-> <<83, 101, 109, 105, 99, 111, 108, 111, 110>>, doc |-> Some(<<32, 96, 59, 96>>), code |-> Some(51)],
        \* /// `'`` | SingleQuote
        [name |-> <<83, 105, 110, 103, 108, 101, 81, 117, 111, 116, 101>>, doc |-> Some(<<32, 96, 39, 96, 96>>), code |-> None],
        \* /// ``` | BackTick
        [name |-> <<66, 97, 99, 107, 84, 105, 99, 107>>, doc |-> Some(<<32, 96, 96, 96>>), code |-> None],
        \* /// `,` | Comma
        [name |-> <<67, 111, 109, 109, 97>>, doc |-> Some(<<32, 96, 44, 96>>), code |-> None],
        \* /// `.` | Period
        [name |-> <<80, 101, 114, 105, 111, 100>>, doc |-> Some(<<32, 96, 46, 96>>), code |-> None],
        \* /// `/` | Slash
        [name |-> <<83, 108, 97, 115, 104>>, doc |-> Some(<<32, 96, 47, 96>>), code |-> None],
        \* /// Caps Lock | CapsLock
        [name |-> <<67, 97, 112, 115, 76, 111, 99, 107>>, doc |-> Some(<<32, 67, 97, 112, 115, 32, 76, 111, 99, 107>>), code |-> None],
        \* /// ISO `<>` | IsoGTLT = 100
        [name |-> <<73, 115, 111, 71, 84, 76, 84>>, doc |-> Some(<<32, 73, 83, 79, 32, 96, 60, 62, 96>>), code |-> Some(100)]
    >>],
    [name |-> "shift_symbols", with_modifiers |-> FALSE, with_dual_functions |-> FALSE, keys |-> <<
        \* /// `_` | Underscore = 2093
        [name |-> <<85, 110, 100, 101, 114, 115, 99, 111, 114, 101>>, doc |-> Some(<<32, 96, 95, 96>>), code |-> Some(2093)],
        \* /// `+` | Plus
        [name |-> <<80, 108, 117, 115>>, doc |-> Some(<<32, 96, 43, 96>>), code |-> None],
        \* /// `{{` | BraceLeft
        [name |-> <<66, 114, 97, 99, 101, 76, 101, 102, 116>>, doc |-> Some(<<32, 96, 123, 123, 96>>), code |-> None],
        \* /// `}}` | BraceRight
        [name |-> <<66, 114, 97, 99, 101, 82, 105, 103, 104, 116>>, doc |-> Some(<<32, 96, 125, 125, 96>>), code |-> None],
        \* /// `|` | Pipe
        [name |-> <<80, 105, 112, 101>>, doc |-> Some(<<32, 96, 124, 96>>), code |-> None],
        \* /// `:` | Colon = 2099
        [name |-> <<67, 111, 108, 111, 110>>, doc |-> Some(<<32, 96, 58, 96>>), code |-> Some(2099)],
        \* /// `"` | DoubleQuote
        [name |-> <<68, 111, 117, 98, 108, 101, 81, 117, 111, 116, 101>>, doc |-> Some(<<32, 96, 34, 96>>), code |-> None],
        \* /// `~` | Tilde
        [name |-> <<84, 105, 108, 100, 101>>, doc |-> Some(<<32, 96, 126, 96>>), code |-> None],
        \* /// `<` | LT
        [name |-> <<76, 84>>, doc |-> Some(<<32, 96, 60, 96>>), code |-> None],
        \* /// `>` | GT
        [name |-> <<71, 84>>, doc |-> Some(<<32, 96, 62, 96>>), code |-> None],
        \* /// `?` | QuestionMark
        [name |-> <<81, 117, 101, 115, 116, 105, 111, 110, 77, 97, 114, 107>>, doc |-> Some(<<32, 96, 63, 96>>), code |-> None],
        \* /// Non-U.S. | | AltPipe = 2148
        [name |-> <<65, 108, 116, 80, 105, 112, 101>>, doc |-> Some(<<32, 78, 111, 110, 45, 85, 46, 83, 46, 32, 124>>), code |-> Some(2148)]
    >>],
    [name |-> "modifiers", with_modifiers |-> TRUE, with_dual_functions |-> FALSE, keys |-> <<
        \* /// Left Ctrl | LeftCtrl = 224
        [name |-> <<76, 101, 102, 116, 67, 116, 114, 108>>, doc |-> Some(<<32, 76, 101, 102, 116, 32, 67, 116, 114, 108>>), code |-> Some(224)],
        \* /// Left Shift | LeftShift
        [name |-> <<76, 101, 102, 116, 83, 104, 105, 102, 116>>, doc |-> Some(<<32, 76, 101, 102, 116, 32, 83, 104, 105, 102, 116>>), code |-> None],
        \* /// Left Shift | LeftAlt
        [name |-> <<76, 101, 102, 116, 65, 108, 116>>, doc |-> Some(<<32, 76, 101, 102, 116, 32, 83, 104, 105, 102, 116>>), code |-> None],
        \* /// Left OS | LeftOs
        [name |-> <<76, 101, 102, 116, 79, 115>>, doc |-> Some(<<32, 76, 101, 102, 116, 32, 79, 83>>), code |-> None],
        \* /// Right Ctrl | RightCtrl
        [name |-> <<82, 105, 103, 104, 116, 67, 116, 114, 108>>, doc |-> Some(<<32, 82, 105, 103, 104, 116, 32, 67, 116, 114, 108>>), code |-> None],
        \* /// Right Shift | RightShift
        [name |-> <<82, 105, 103, 104, 116, 83, 104, 105, 102, 116>>, doc |-> Some(<<32, 82, 105, 103, 104, 116, 32, 83, 104, 105, 102, 116>>), code |-> None],
        \* AltGr
        [name |-> <<65, 108, 116, 71, 114>>, doc |-> None, code |-> None],
        \* /// Right OS | RightOs
        [name |-> <<82, 105, 103, 104, 116, 79, 115>>, doc |-> Some(<<32, 82, 105, 103, 104, 116, 32, 79, 83>>), code |-> None]
    >>],
    [name |-> "media", with_modifiers |-> FALSE, with_dual_functions |-> FALSE, keys |-> <<
        \* Mute = 19682
        [name |-> <<77, 117, 116, 101>>, doc |-> None, code |-> Some(19682)],
        \* /// Next Track | NextTrack = 22709
        [name |-> <<78, 101, 120, 116, 84, 114, 97, 99, 107>>, doc |-> Some(<<32, 78, 101, 120, 116, 32, 84, 114, 97, 99, 107>>), code |-> Some(22709)],
        \* /// Previous Track | PreviousTrack
        [name |-> <<80, 114, 101, 118, 105, 111, 117, 115, 84, 114, 97, 99, 107>>, doc |-> Some(<<32, 80, 114, 101, 118, 105, 111, 117, 115, 32, 84, 114, 97, 99, 107>>), code |-> None],
        \* Stop
        [name |-> <<83, 116, 111, 112>>, doc |-> None, code |-> None],
        \* /// Play/Pause | PlayPause = 22733
        [name |-> <<80, 108, 97, 121, 80, 97, 117, 115, 101>>, doc |-> Some(<<32, 80, 108, 97, 121, 47, 80, 97, 117, 115, 101>>), code |-> Some(22733)],
        \* /// Volume Up | VolumeUp = 23785
        [name |-> <<86, 111, 108, 117, 109, 101, 85, 112>>, doc |-> Some(<<32, 86, 111, 108, 117, 109, 101, 32, 85, 112>>), code |-> Some(23785)],
        \* /// Volume Down | VolumeDown
        [name |-> <<86, 111, 108, 117, 109, 101, 68, 111, 119, 110>>, doc |-> Some(<<32, 86, 111, 108, 117, 109, 101, 32, 68, 111, 119, 110>>), code |-> None],
        \* Eject = 22712
        [name |-> <<69, 106, 101, 99, 116>>, doc |-> None, code |-> Some(22712)],
        \* Camera = 18552
        [name |-> <<67, 97, 109, 101, 114, 97>>, doc |-> None, code |-> Some(18552)],
        \* /// Brightness Up | BrightnessUp = 23663
        [name |-> <<66, 114, 105, 103, 104, 116, 110, 101, 115, 115, 85, 112>>, doc |-> Some(<<32, 66, 114, 105, 103, 104, 116, 110, 101, 115, 115, 32, 85, 112>>), code |-> Some(23663)],
        \* /// Brightness Down | BrightnessDown
        [name |-> <<66, 114, 105, 103, 104, 116, 110, 101, 115, 115, 68, 111, 119, 110>>, doc |-> Some(<<32, 66, 114, 105, 103, 104, 116, 110, 101, 115, 115, 32, 68, 111, 119, 110>>), code |-> None],
        \* Calculator = 18834
        [name |-> <<67, 97, 108, 99, 117, 108, 97, 116, 111, 114>>, doc |-> None, code |-> Some(18834)],
        \* Shuffle = 22713
        [name |-> <<83, 104, 117, 102, 102, 108, 101>>, doc |-> None, code |-> Some(22713)]
    >>],
    [name |-> "navigation", with_modifiers |-> TRUE, with_dual_functions |-> TRUE, keys |-> <<
        \* Home = 74
        [name |-> <<72, 111, 109, 101>>, doc |-> None, code |-> Some(74)],
        \* /// Page Up | PageUp
        [name |-> <<80, 97, 103, 101, 85, 112>>, doc |-> Some(<<32, 80, 97, 103, 101, 32, 85, 112>>), code |-> None],
        \* End = 77
        [name |-> <<69, 110, 100>>, doc |-> None, code |-> Some(77)],
        \* /// Page Down | PageDown
        [name |-> <<80, 97, 103, 101, 68, 111, 119, 110>>, doc |-> Some(<<32, 80, 97, 103, 101, 32, 68, 111, 119, 110>>), code |-> None],
        \* /// Right Arrow | ArrowRight
        [name |-> <<65, 114, 114, 111, 119, 82, 105, 103, 104, 116>>, doc |-> Some(<<32, 82, 105, 103, 104, 116, 32, 65, 114, 114, 111, 119>>), code |-> None],
        \* /// Left Arrow | ArrowLeft
        [name |-> <<65, 114, 114, 111, 119, 76, 101, 102, 116>>, doc |-> Some(<<32, 76, 101, 102, 116, 32, 65, 114, 114, 111, 119>>), code |-> None],
        \* /// Down Arrow | ArrowDown
        [name |-> <<65, 114, 114, 111, 119, 68, 111, 119, 110>>, doc |-> Some(<<32, 68, 111, 119, 110, 32, 65, 114, 114, 111, 119>>), code |-> None],
        \* /// Up Arrow | ArrowUp
        [name |-> <<65, 114, 114, 111, 119, 85, 112>>, doc |-> Some(<<32, 85, 112, 32, 65, 114, 114, 111, 119>>), code |-> None],
        \* Menu = 101
        [name |-> <<77, 101, 110, 117>>, doc |-> None, code |-> Some(101)]
    >>],
    [name |-> "mouse_movement", with_modifiers |-> FALSE, with_dual_functions |-> FALSE, keys |-> <<
        \* /// Mouse Up | MouseUp = 20481
        [name |-> <<77, 111, 117, 115, 101, 85, 112>>, doc |-> Some(<<32, 77, 111, 117, 115, 101, 32, 85, 112>>), code |-> Some(20481)],
        \* /// Mouse Down | MouseDown
        [name |-> <<77, 111, 117, 115, 101, 68, 111, 119, 110>>, doc |-> Some(<<32, 77, 111, 117, 115, 101, 32, 68, 111, 119, 110>>), code |-> None],
        \* /// Mouse Left | MouseLeft = 20484
        [name |-> <<77, 111, 117, 115, 101, 76, 101, 102, 116>>, doc |-> Some(<<32, 77, 111, 117, 115, 101, 32, 76, 101, 102, 116>>), code |-> Some(20484)],
        \* /// Mouse Right | MouseRight = 20488
        [name |-> <<77, 111, 117, 115, 101, 82, 105, 103, 104, 116>>, doc |-> Some(<<32, 77, 111, 117, 115, 101, 32, 82, 105, 103, 104, 116>>), code |-> Some(20488)]
    >>],
    [name |-> "mouse_wheele", with_modifiers |-> FALSE, with_dual_functions |-> FALSE, keys |-> <<
        \* /// Mouse Wheele Up | WheelUp = 20497
        [name |-> <<87, 104, 101, 101, 108, 85, 112>>, doc |-> Some(<<32, 77, 111, 117, 115, 101, 32, 87, 104, 101, 101, 108, 101, 32, 85, 112>>), code |-> Some(20497)],
        \* /// Mouse Wheel Down | WheelDown
        [name |-> <<87, 104, 101, 101, 108, 68, 111, 119, 110>>, doc |-> Some(<<32, 77, 111, 117, 115, 101, 32, 87, 104, 101, 101, 108, 32, 68, 111, 119, 110>>), code |-> None],
        \* /// Mouse Wheel Left | WheelLeft = 20500
        [name |-> <<87, 104, 101, 101, 108, 76, 101, 102, 116>>, doc |-> Some(<<32, 77, 111, 117, 115, 101, 32, 87, 104, 101, 101, 108, 32, 76, 101, 102, 116>>), code |-> Some(20500)],
        \* /// Mouse Wheele Right | WheelRight = 20504
        [name |-> <<87, 104, 101, 101, 108, 82, 105, 103, 104, 116>>, doc |-> Some(<<32, 77, 111, 117, 115, 101, 32, 87, 104, 101, 101, 108, 101, 32, 82, 105, 103, 104, 116>>), code |-> Some(20504)]
    >>],
    [name |-> "mouse_buttons", with_modifiers |-> FALSE, with_dual_functions |-> FALSE, keys |-> <<
        \* /// Mouse Button Left | Left = 20545
        [name |-> <<76, 101, 102, 116>>, doc |-> Some(<<32, 77, 111, 117, 115, 101, 32, 66, 117, 116, 116, 111, 110, 32, 76, 101, 102, 116>>), code |-> Some(20545)],
        \* /// Mouse Button Right | Right
        [name |-> <<82, 105, 103, 104, 116>>, doc |-> Some(<<32, 77, 111, 117, 115, 101, 32, 66, 117, 116, 116, 111, 110, 32, 82, 105, 103, 104, 116>>), code |-> None],
        \* /// Mouse Button Middle | Middle = 20548
        [name |-> <<77, 105, 100, 100, 108, 101>>, doc |-> Some(<<32, 77, 111, 117, 115, 101, 32, 66, 117, 116, 116, 111, 110, 32, 77, 105, 100, 100, 108, 101>>), code |-> Some(20548)],
        \* /// Mouse Button Back | Back = 20552
        [name |-> <<66, 97, 99, 107>>, doc |-> Some(<<32, 77, 111, 117, 115, 101, 32, 66, 117, 116, 116, 111, 110, 32, 66, 97, 99, 107>>), code |-> Some(20552)],
        \* /// Mouse Button Forward | Forward = 20560
        [name |-> <<70, 111, 114, 119, 97, 114, 100>>, doc |-> Some(<<32, 77, 111, 117, 115, 101, 32, 66, 117, 116, 116, 111, 110, 32, 70, 111, 114, 119, 97, 114, 100>>), code |-> Some(20560)]
    >>],
    [name |-> "mouse_warp", with_modifiers |-> FALSE, with_dual_functions |-> FALSE, keys |-> <<
        \* /// Mouse Warp End | End = 20576
        [name |-> <<69, 110, 100>>, doc |-> Some(<<32, 77, 111, 117, 115, 101, 32, 87, 97, 114, 112, 32, 69, 110, 100>>), code |-> Some(20576)],
        \* /// Mouse Warp NW | NW = 20517
        [name |-> <<78, 87>>, doc |-> Some(<<32, 77, 111, 117, 115, 101, 32, 87, 97, 114, 112, 32, 78, 87>>), code |-> Some(20517)],
        \* /// Mouse Warp SW | SW
        [name |-> <<83, 87>>, doc |-> Some(<<32, 77, 111, 117, 115, 101, 32, 87, 97, 114, 112, 32, 83, 87>>), code |-> None],
        \* /// Mouse Warp NE | NE = 20521
        [name |-> <<78, 69>>, doc |-> Some(<<32, 77, 111, 117, 115, 101, 32, 87, 97, 114, 112, 32, 78, 69>>), code |-> Some(20521)],
        \* /// Mouse Warp SE | SE
        [name |-> <<83, 69>>, doc |-> Some(<<32, 77, 111, 117, 115, 101, 32, 87, 97, 114, 112, 32, 83, 69>>), code |-> None]
    >>],
    [name |-> "led_effects", with_modifiers |-> FALSE, with_dual_functions |-> FALSE, keys |-> <<
        \* /// Next LED Effect | Next = 17152
        [name |-> <<78, 101, 120, 116>>, doc |-> Some(<<32, 78, 101, 120, 116, 32, 76, 69, 68, 32, 69, 102, 102, 101, 99, 116>>), code |-> Some(17152)],
        \* /// Previous LED Effect | Previous
        [name |-> <<80, 114, 101, 118, 105, 111, 117, 115>>, doc |-> Some(<<32, 80, 114, 101, 118, 105, 111, 117, 115, 32, 76, 69, 68, 32, 69, 102, 102, 101, 99, 116>>), code |-> None],
        \* /// Toggle LED Effect | Toggle
        [name |-> <<84, 111, 103, 103, 108, 101>>, doc |-> Some(<<32, 84, 111, 103, 103, 108, 101, 32, 76, 69, 68, 32, 69, 102, 102, 101, 99, 116>>), code |-> None]
    >>],
    [name |-> "battery", with_modifiers |-> FALSE, with_dual_functions |-> FALSE, keys |-> <<
        \* /// Battery Status | Status = 54108
        [name |-> <<83, 116, 97, 116, 117, 115>>, doc |-> Some(<<32, 66, 97, 116, 116, 101, 114, 121, 32, 83, 116, 97, 116, 117, 115>>), code |-> Some(54108)]
    >>],
    [name |-> "bluetooth", with_modifiers |-> FALSE, with_dual_functions |-> FALSE, keys |-> <<
        \* /// Bluetooth Pairing | Pair = 54109
        [name |-> <<80, 97, 105, 114>>, doc |-> Some(<<32, 66, 108, 117, 101, 116, 111, 111, 116, 104, 32, 80, 97, 105, 114, 105, 110, 103>>), code |-> Some(54109)]
    >>],
    [name |-> "energy", with_modifiers |-> FALSE, with_dual_functions |-> FALSE, keys |-> <<
        \* /// Energy Status | Status = 54111
        [name |-> <<83, 116, 97, 116, 117, 115>>, doc |-> Some(<<32, 69, 110, 101, 114, 103, 121, 32, 83, 116, 97, 116, 117, 115>>), code |-> Some(54111)]
    >>],
    [name |-> "rf", with_modifiers |-> FALSE, with_dual_functions |-> FALSE, keys |-> <<
        \* /// Wireless RF Status | Status = 54112
        [name |-> <<83, 116, 97, 116, 117, 115>>, doc |-> Some(<<32, 87, 105, 114, 101, 108, 101, 115, 115, 32, 82, 70, 32, 83, 116, 97, 116, 117, 115>>), code |-> Some(54112)]
    >>],
    [name |-> "layer_lock", with_modifiers |-> FALSE, with_dual_functions |-> FALSE, keys |-> <<
        \* /// Layer 1 Lock | Layer1 = 17408
        [name |-> <<76, 97, 121, 101, 114, 49>>, doc |-> Some(<<32, 76, 97, 121, 101, 114, 32, 49, 32, 76, 111, 99, 107>>), code |-> Some(17408)],
        \* /// Layer 2 Lock | Layer2
        [name |-> <<76, 97, 121, 101, 114, 50>>, doc |-> Some(<<32, 76, 97, 121, 101, 114, 32, 50, 32, 76, 111, 99, 107>>), code |-> None],
        \* /// Layer 3 Lock | Layer3
        [name |-> <<76, 97, 121, 101, 114, 51>>, doc |-> Some(<<32, 76, 97, 121, 101, 114, 32, 51, 32, 76, 111, 99, 107>>), code |-> None],
        \* /// Layer 4 Lock | Layer4
        [name |-> <<76, 97, 121, 101, 114, 52>>, doc |-> Some(<<32, 76, 97, 121, 101, 114, 32, 52, 32, 76, 111, 99, 107>>), code |-> None],
        \* /// Layer 5 Lock | Layer5
        [name |-> <<76, 97, 121, 101, 114, 53>>, doc |-> Some(<<32, 76, 97, 121, 101, 114, 32, 53, 32, 76, 111, 99, 107>>), code |-> None],
        \* /// Layer 6 Lock | Layer6
        [name |-> <<76, 97, 121, 101, 114, 54>>, doc |-> Some(<<32, 76, 97, 121, 101, 114, 32, 54, 32, 76, 111, 99, 107>>), code |-> None],
        \* /// Layer 7 Lock | Layer7
        [name |-> <<76, 97, 121, 101, 114, 55>>, doc |-> Some(<<32, 76, 97, 121, 101, 114, 32, 55, 32, 76, 111, 99, 107>>), code |-> None],
        \* /// Layer 8 Lock | Layer8
        [name |-> <<76, 97, 121, 101, 114, 56>>, doc |-> Some(<<32, 76, 97, 121, 101, 114, 32, 56, 32, 76, 111, 99, 107>>), code |-> None],
        \* /// Layer 9 Lock | Layer9
        [name |-> <<76, 97, 121, 101, 114, 57>>, doc |-> Some(<<32, 76, 97, 121, 101, 114, 32, 57, 32, 76, 111, 99, 107>>), code |-> None],
        \* /// Layer 10 Lock | Layer10
        [name |-> <<76, 97, 121, 101, 114, 49, 48>>, doc |-> Some(<<32, 76, 97, 121, 101, 114, 32, 49, 48, 32, 76, 111, 99, 107>>), code |-> None]
    >>],
    [name |-> "layer_shift", with_modifiers |-> FALSE, with_dual_functions |-> FALSE, keys |-> <<
        \* /// Layer 1 Shift | Layer1 = 17450
        [name |-> <<76, 97, 121, 101, 114, 49>>, doc |-> Some(<<32, 76, 97, 121, 101, 114, 32, 49, 32, 83, 104, 105, 102, 116>>), code |-> Some(17450)],
        \* /// Layer 2 Shift | Layer2
        [name |-> <<76, 97, 121, 101, 114, 50>>, doc |-> Some(<<32, 76, 97, 121, 101, 114, 32, 50, 32, 83, 104, 105, 102, 116>>), code |-> None],
        \* /// Layer 3 Shift | Layer3
        [name |-> <<76, 97, 121, 101, 114, 51>>, doc |-> Some(<<32, 76, 97, 121, 101, 114, 32, 51, 32, 83, 104, 105, 102, 116>>), code |-> None],
        \* /// Layer 4 Shift | Layer4
        [name |-> <<76, 97, 121, 101, 114, 52>>, doc |-> Some(<<32, 76, 97, 121, 101, 114, 32, 52, 32, 83, 104, 105, 102, 116>>), code |-> None],
        \* /// Layer 5 Shift | Layer5
        [name |-> <<76, 97, 121, 101, 114, 53>>, doc |-> Some(<<32, 76, 97, 121, 101, 114, 32, 53, 32, 83, 104, 105, 102, 116>>), code |-> None],
        \* /// Layer 6 Shift | Layer6
        [name |-> <<76, 97, 121, 101, 114, 54>>, doc |-> Some(<<32, 76, 97, 121, 101, 114, 32, 54, 32, 83, 104, 105, 102, 116>>), code |-> None],
        \* /// Layer 7 Shift | Layer7
        [name |-> <<76, 97, 121, 101, 114, 55>>, doc |-> Some(<<32, 76, 97, 121, 101, 114, 32, 55, 32, 83, 104, 105, 102, 116>>), code |-> None],
        \* /// Layer 8 Shift | Layer8
        [name |-> <<76, 97, 121, 101, 114, 56>>, doc |-> Some(<<32, 76, 97, 121, 101, 114, 32, 56, 32, 83, 104, 105, 102, 116>>), code |-> None],
        \* /// Layer 9 Shift | Layer9
        [name |-> <<76, 97, 121, 101, 114, 57>>, doc |-> Some(<<32, 76, 97, 121, 101, 114, 32, 57, 32, 83, 104, 105, 102, 116>>), code |-> None],
        \* /// Layer 10 Shift | Layer10
        [name |-> <<76, 97, 121, 101, 114, 49, 48>>, doc |-> Some(<<32, 76, 97, 121, 101, 114, 32, 49, 48, 32, 83, 104, 105, 102, 116>>), code |-> None]
    >>],
    [name |-> "layer_move", with_modifiers |-> FALSE, with_dual_functions |-> FALSE, keys |-> <<
        \* /// Layer 1 Move | Layer1 = 17492
        [name |-> <<76, 97, 121, 101, 114, 49>>, doc |-> Some(<<32, 76, 97, 121, 101, 114, 32, 49, 32, 77, 111, 118, 101>>), code |-> Some(17492)],
        \* /// Layer 2 Move | Layer2
        [name |-> <<76, 97, 121, 101, 114, 50>>, doc |-> Some(<<32, 76, 97, 121, 101, 114, 32, 50, 32, 77, 111, 118, 101>>), code |-> None],
        \* /// Layer 3 Move | Layer3
        [name |-> <<76, 97, 121, 101, 114, 51>>, doc |-> Some(<<32, 76, 97, 121, 101, 114, 32, 51, 32, 77, 111, 118, 101>>), code |-> None],
        \* /// Layer 4 Move | Layer4
        [name |-> <<76, 97, 121, 101, 114, 52>>, doc |-> Some(<<32, 76, 97, 121, 101, 114, 32, 52, 32, 77, 111, 118, 101>>), code |-> None],
        \* /// Layer 5 Move | Layer5
        [name |-> <<76, 97, 121, 101, 114, 53>>, doc |-> Some(<<32, 76, 97, 121, 101, 114, 32, 53, 32, 77, 111, 118, 101>>), code |-> None],
        \* /// Layer 6 Move | Layer6
        [name |-> <<76, 97, 121, 101, 114, 54>>, doc |-> Some(<<32, 76, 97, 121, 101, 114, 32, 54, 32, 77, 111, 118, 101>>), code |-> None],
        \* /// Layer 7 Move | Layer7
        [name |-> <<76, 97, 121, 101, 114, 55>>, doc |-> Some(<<32, 76, 97, 121, 101, 114, 32, 55, 32, 77, 111, 118, 101>>), code |-> None],
        \* /// Layer 8 Move | Layer8
        [name |-> <<76, 97, 121, 101, 114, 56>>, doc |-> Some(<<32, 76, 97, 121, 101, 114, 32, 56, 32, 77, 111, 118, 101>>), code |-> None],
        \* /// Layer 9 Move | Layer9
        [name |-> <<76, 97, 121, 101, 114, 57>>, doc |-> Some(<<32, 76, 97, 121, 101, 114, 32, 57, 32, 77, 111, 118, 101>>), code |-> None],
        \* /// Layer 10 Move | Layer10
        [name |-> <<76, 97, 121, 101, 114, 49, 48>>, doc |-> Some(<<32, 76, 97, 121, 101, 114, 32, 49, 48, 32, 77, 111, 118, 101>>), code |-> None]
    >>],
    [name |-> "miscellaneous", with_modifiers |-> TRUE, with_dual_functions |-> TRUE, keys |-> <<
        \* /// Print Screen | PrintScreen = 70
        [name |-> <<80, 114, 105, 110, 116, 83, 99, 114, 101, 101, 110>>, doc |-> Some(<<32, 80, 114, 105, 110, 116, 32, 83, 99, 114, 101, 101, 110>>), code |-> Some(70)],
        \* /// Scroll Lock | ScrollLock
        [name |-> <<83, 99, 114, 111, 108, 108, 76, 111, 99, 107>>, doc |-> Some(<<32, 83, 99, 114, 111, 108, 108, 32, 76, 111, 99, 107>>), code |-> None],
        \* Pause
        [name |-> <<80, 97, 117, 115, 101>>, doc |-> None, code |-> None],
        \* Shutdown = 20865
        [name |-> <<83, 104, 117, 116, 100, 111, 119, 110>>, doc |-> None, code |-> Some(20865)],
        \* Sleep = 20866
        [name |-> <<83, 108, 101, 101, 112>>, doc |-> None, code |-> Some(20866)]
    >>],
    [name |-> "oneshot", with_modifiers |-> FALSE, with_dual_functions |-> FALSE, keys |-> <<
        \* /// Oneshot Layer 1 | Layer1 = 49161
        [name |-> <<76, 97, 121, 101, 114, 49>>, doc |-> Some(<<32, 79, 110, 101, 115, 104, 111, 116, 32, 76, 97, 121, 101, 114, 32, 49>>), code |-> Some(49161)],
        \* /// Oneshot Layer 2 | Layer2
        [name |-> <<76, 97, 121, 101, 114, 50>>, doc |-> Some(<<32, 79, 110, 101, 115, 104, 111, 116, 32, 76, 97, 121, 101, 114, 32, 50>>), code |-> None],
        \* /// Oneshot Layer 3 | Layer3
        [name |-> <<76, 97, 121, 101, 114, 51>>, doc |-> Some(<<32, 79, 110, 101, 115, 104, 111, 116, 32, 76, 97, 121, 101, 114, 32, 51>>), code |-> None],
        \* /// Oneshot Layer 4 | Layer4
        [name |-> <<76, 97, 121, 101, 114, 52>>, doc |-> Some(<<32, 79, 110, 101, 115, 104, 111, 116, 32, 76, 97, 121, 101, 114, 32, 52>>), code |-> None],
        \* /// Oneshot Layer 5 | Layer5
        [name |-> <<76, 97, 121, 101, 114, 53>>, doc |-> Some(<<32, 79, 110, 101, 115, 104, 111, 116, 32, 76, 97, 121, 101, 114, 32, 53>>), code |-> None],
        \* /// Oneshot Layer 6 | Layer6
        [name |-> <<76, 97, 121, 101, 114, 54>>, doc |-> Some(<<32, 79, 110, 101, 115, 104, 111, 116, 32, 76, 97, 121, 101, 114, 32, 54>>), code |-> None],
        \* /// Oneshot Layer 7 | Layer7
        [name |-> <<76, 97, 121, 101, 114, 55>>, doc |-> Some(<<32, 79, 110, 101, 115, 104, 111, 116, 32, 76, 97, 121, 101, 114, 32, 55>>), code |-> None],
        \* /// Oneshot Layer 8 | Layer8
        [name |-> <<76, 97, 121, 101, 114, 56>>, doc |-> Some(<<32, 79, 110, 101, 115, 104, 111, 116, 32, 76, 97, 121, 101, 114, 32, 56>>), code |-> None],
        \* /// Oneshot Left Ctrl | LeftCtrl = 49153
        [name |-> <<76, 101, 102, 116, 67, 116, 114, 108>>, doc |-> Some(<<32, 79, 110, 101, 115, 104, 111, 116, 32, 76, 101, 102, 116, 32, 67, 116, 114, 108>>), code |-> Some(49153)],
        \* /// Oneshot Left Shift | LeftShift
        [name |-> <<76, 101, 102, 116, 83, 104, 105, 102, 116>>, doc |-> Some(<<32, 79, 110, 101, 115, 104, 111, 116, 32, 76, 101, 102, 116, 32, 83, 104, 105, 102, 116>>), code |-> None],
        \* /// Oneshot Left Alt | LeftAlt
        [name |-> <<76, 101, 102, 116, 65, 108, 116>>, doc |-> Some(<<32, 79, 110, 101, 115, 104, 111, 116, 32, 76, 101, 102, 116, 32, 65, 108, 116>>), code |-> None],
        \* /// Oneshot Left OS | LeftOs
        [name |-> <<76, 101, 102, 116, 79, 115>>, doc |-> Some(<<32, 79, 110, 101, 115, 104, 111, 116, 32, 76, 101, 102, 116, 32, 79, 83>>), code |-> None],
        \* /// Oneshot Right Ctrl | RightCtrl
        [name |-> <<82, 105, 103, 104, 116, 67, 116, 114, 108>>, doc |-> Some(<<32, 79, 110, 101, 115, 104, 111, 116, 32, 82, 105, 103, 104, 116, 32, 67, 116, 114, 108>>), code |-> None],
        \* /// Oneshot Right Shift | RightShift
        [name |-> <<82, 105, 103, 104, 116, 83, 104, 105, 102, 116>>, doc |-> Some(<<32, 79, 110, 101, 115, 104, 111, 116, 32, 82, 105, 103, 104, 116, 32, 83, 104, 105, 102, 116>>), code |-> None],
        \* /// Oneshot AltGr | AltGr
        [name |-> <<65, 108, 116, 71, 114>>, doc |-> Some(<<32, 79, 110, 101, 115, 104, 111, 116, 32, 65, 108, 116, 71, 114>>), code |-> None],
        \* /// Oneshot Right OS | RightOs
        [name |-> <<82, 105, 103, 104, 116, 79, 115>>, doc |-> Some(<<32, 79, 110, 101, 115, 104, 111, 116, 32, 82, 105, 103, 104, 116, 32, 79, 83>>), code |-> None]
    >>],
    [name |-> "macros", with_modifiers |-> FALSE, with_dual_functions |-> FALSE, keys |-> <<
        \* /// Macro 1 | Macro1 = 53852
        [name |-> <<77, 97, 99, 114, 111, 49>>, doc |-> Some(<<32, 77, 97, 99, 114, 111, 32, 49>>), code |-> Some(53852)],
        \* /// Macro 2 | Macro2
        [name |-> <<77, 97, 99, 114, 111, 50>>, doc |-> Some(<<32, 77, 97, 99, 114, 111, 32, 50>>), code |-> None],
        \* /// Macro 3 | Macro3
        [name |-> <<77, 97, 99, 114, 111, 51>>, doc |-> Some(<<32, 77, 97, 99, 114, 111, 32, 51>>), code |-> None],
        \* /// Macro 4 | Macro4
        [name |-> <<77, 97, 99, 114, 111, 52>>, doc |-> Some(<<32, 77, 97, 99, 114, 111, 32, 52>>), code |-> None],
        \* /// Macro 5 | Macro5
        [name |-> <<77, 97, 99, 114, 111, 53>>, doc |-> Some(<<32, 77, 97, 99, 114, 111, 32, 53>>), code |-> None],
        \* /// Macro 6 | Macro6
        [name |-> <<77, 97, 99, 114, 111, 54>>, doc |-> Some(<<32, 77, 97, 99, 114, 111, 32, 54>>), code |-> None],
        \* /// Macro 7 | Macro7
        [name |-> <<77, 97, 99, 114, 111, 55>>, doc |-> Some(<<32, 77, 97, 99, 114, 111, 32, 55>>), code |-> None],
        \* /// Macro 8 | Macro8
        [name |-> <<77, 97, 99, 114, 111, 56>>, doc |-> Some(<<32, 77, 97, 99, 114, 111, 32, 56>>), code |-> None],
        \* /// Macro 9 | Macro9
        [name |-> <<77, 97, 99, 114, 111, 57>>, doc |-> Some(<<32, 77, 97, 99, 114, 111, 32, 57>>), code |-> None],
        \* /// Macro 10 | Macro10
        [name |-> <<77, 97, 99, 114, 111, 49, 48>>, doc |-> Some(<<32, 77, 97, 99, 114, 111, 32, 49, 48>>), code |-> None],
        \* /// Macro 11 | Macro11
        [name |-> <<77, 97, 99, 114, 111, 49, 49>>, doc |-> Some(<<32, 77, 97, 99, 114, 111, 32, 49, 49>>), code |-> None],
        \* /// Macro 12 | Macro12
        [name |-> <<77, 97, 99, 114, 111, 49, 50>>, doc |-> Some(<<32, 77, 97, 99, 114, 111, 32, 49, 50>>), code |-> None],
        \* /// Macro 13 | Macro13
        [name |-> <<77, 97, 99, 114, 111, 49, 51>>, doc |-> Some(<<32, 77, 97, 99, 114, 111, 32, 49, 51>>), code |-> None],
        \* /// Macro 14 | Macro14
        [name |-> <<77, 97, 99, 114, 111, 49, 52>>, doc |-> Some(<<32, 77, 97, 99, 114, 111, 32, 49, 52>>), code |-> None],
        \* /// Macro 15 | Macro15
        [name |-> <<77, 97, 99, 114, 111, 49, 53>>, doc |-> Some(<<32, 77, 97, 99, 114, 111, 32, 49, 53>>), code |-> None],
        \* /// Macro 16 | Macro16
        [name |-> <<77, 97, 99, 114, 111, 49, 54>>, doc |-> Some(<<32, 77, 97, 99, 114, 111, 32, 49, 54>>), code |-> None],
        \* /// Macro 17 | Macro17
        [name |-> <<77, 97, 99, 114, 111, 49, 55>>, doc |-> Some(<<32, 77, 97, 99, 114, 111, 32, 49, 55>>), code |-> None],
        \* /// Macro 18 | Macro18
        [name |-> <<77, 97, 99, 114, 111, 49, 56>>, doc |-> Some(<<32, 77, 97, 99, 114, 111, 32, 49, 56>>), code |-> None],
        \* /// Macro 19 | Macro19
        [name |-> <<77, 97, 99, 114, 111, 49, 57>>, doc |-> Some(<<32, 77, 97, 99, 114, 111, 32, 49, 57>>), code |-> None],
        \* /// Macro 20 | Macro20
        [name |-> <<77, 97, 99, 114, 111, 50, 48>>, doc |-> Some(<<32, 77, 97, 99, 114, 111, 32, 50, 48>>), code |-> None],
        \* /// Macro 21 | Macro21
        [name |-> <<77, 97, 99, 114, 111, 50, 49>>, doc |-> Some(<<32, 77, 97, 99, 114, 111, 32, 50, 49>>), code |-> None],
        \* /// Macro 22 | Macro22
        [name |-> <<77, 97, 99, 114, 111, 50, 50>>, doc |-> Some(<<32, 77, 97, 99, 114, 111, 32, 50, 50>>), code |-> None],
        \* /// Macro 23 | Macro23
        [name |-> <<77, 97, 99, 114, 111, 50, 51>>, doc |-> Some(<<32, 77, 97, 99, 114, 111, 32, 50, 51>>), code |-> None],
        \* /// Macro 24 | Macro24
        [name |-> <<77, 97, 99, 114, 111, 50, 52>>, doc |-> Some(<<32, 77, 97, 99, 114, 111, 32, 50, 52>>), code |-> None],
        \* /// Macro 25 | Macro25
        [name |-> <<77, 97, 99, 114, 111, 50, 53>>, doc |-> Some(<<32, 77, 97, 99, 114, 111, 32, 50, 53>>), code |-> None],
        \* /// Macro 26 | Macro26
        [name |-> <<77, 97, 99, 114, 111, 50, 54>>, doc |-> Some(<<32, 77, 97, 99, 114, 111, 32, 50, 54>>), code |-> None],
        \* /// Macro 27 | Macro27
        [name |-> <<77, 97, 99, 114, 111, 50, 55>>, doc |-> Some(<<32, 77, 97, 99, 114, 111, 32, 50, 55>>), code |-> None],
        \* /// Macro 28 | Macro28
        [name |-> <<77, 97, 99, 114, 111, 50, 56>>, doc |-> Some(<<32, 77, 97, 99, 114, 111, 32, 50, 56>>), code |-> None],
        \* /// Macro 29 | Macro29
        [name |-> <<77, 97, 99, 114, 111, 50, 57>>, doc |-> Some(<<32, 77, 97, 99, 114, 111, 32, 50, 57>>), code |-> None],
        \* /// Macro 30 | Macro30
        [name |-> <<77, 97, 99, 114, 111, 51, 48>>, doc |-> Some(<<32, 77, 97, 99, 114, 111, 32, 51, 48>>), code |-> None],
        \* /// Macro 31 | Macro31
        [name |-> <<77, 97, 99, 114, 111, 51, 49>>, doc |-> Some(<<32, 77, 97, 99, 114, 111, 32, 51, 49>>), code |-> None],
        \* /// Macro 32 | Macro32
        [name |-> <<77, 97, 99, 114, 111, 51, 50>>, doc |-> Some(<<32, 77, 97, 99, 114, 111, 32, 51, 50>>), code |-> None],
        \* /// Macro 33 | Macro33
        [name |-> <<77, 97, 99, 114, 111, 51, 51>>, doc |-> Some(<<32, 77, 97, 99, 114, 111, 32, 51, 51>>), code |-> None],
        \* /// Macro 34 | Macro34
        [name |-> <<77, 97, 99, 114, 111, 51, 52>>, doc |-> Some(<<32, 77, 97, 99, 114, 111, 32, 51, 52>>), code |-> None],
        \* /// Macro 35 | Macro35
        [name |-> <<77, 97, 99, 114, 111, 51, 53>>, doc |-> Some(<<32, 77, 97, 99, 114, 111, 32, 51, 53>>), code |-> None],
        \* /// Macro 36 | Macro36
        [name |-> <<77, 97, 99, 114, 111, 51, 54>>, doc |-> Some(<<32, 77, 97, 99, 114, 111, 32, 51, 54>>), code |-> None],
        \* /// Macro 37 | Macro37
        [name |-> <<77, 97, 99, 114, 111, 51, 55>>, doc |-> Some(<<32, 77, 97, 99, 114, 111, 32, 51, 55>>), code |-> None],
        \* /// Macro 38 | Macro38
        [name |-> <<77, 97, 99, 114, 111, 51, 56>>, doc |-> Some(<<32, 77, 97, 99, 114, 111, 32, 51, 56>>), code |-> None],
        \* /// Macro 39 | Macro39
        [name |-> <<77, 97, 99, 114, 111, 51, 57>>, doc |-> Some(<<32, 77, 97, 99, 114, 111, 32, 51, 57>>), code |-> None],
        \* /// Macro 40 | Macro40
        [name |-> <<77, 97, 99, 114, 111, 52, 48>>, doc |-> Some(<<32, 77, 97, 99, 114, 111, 32, 52, 48>>), code |-> None],
        \* /// Macro 41 | Macro41
        [name |-> <<77, 97, 99, 114, 111, 52, 49>>, doc |-> Some(<<32, 77, 97, 99, 114, 111, 32, 52, 49>>), code |-> None],
        \* /// Macro 42 | Macro42
        [name |-> <<77, 97, 99, 114, 111, 52, 50>>, doc |-> Some(<<32, 77, 97, 99, 114, 111, 32, 52, 50>>), code |-> None],
        \* /// Macro 43 | Macro43
        [name |-> <<77, 97, 99, 114, 111, 52, 51>>, doc |-> Some(<<32, 77, 97, 99, 114, 111, 32, 52, 51>>), code |-> None],
        \* /// Macro 44 | Macro44
        [name |-> <<77, 97, 99, 114, 111, 52, 52>>, doc |-> Some(<<32, 77, 97, 99, 114, 111, 32, 52, 52>>), code |-> None],
        \* /// Macro 45 | Macro45
        [name |-> <<77, 97, 99, 114, 111, 52, 53>>, doc |-> Some(<<32, 77, 97, 99, 114, 111, 32, 52, 53>>), code |-> None],
        \* /// Macro 46 | Macro46
        [name |-> <<77, 97, 99, 114, 111, 52, 54>>, doc |-> Some(<<32, 77, 97, 99, 114, 111, 32, 52, 54>>), code |-> None],
        \* /// Macro 47 | Macro47
        [name |-> <<77, 97, 99, 114, 111, 52, 55>>, doc |-> Some(<<32, 77, 97, 99, 114, 111, 32, 52, 55>>), code |-> None],
        \* /// Macro 48 | Macro48
        [name |-> <<77, 97, 99, 114, 111, 52, 56>>, doc |-> Some(<<32, 77, 97, 99, 114, 111, 32, 52, 56>>), code |-> None],
        \* /// Macro 49 | Macro49
        [name |-> <<77, 97, 99, 114, 111, 52, 57>>, doc |-> Some(<<32, 77, 97, 99, 114, 111, 32, 52, 57>>), code |-> None],
        \* /// Macro 50 | Macro50
        [name |-> <<77, 97, 99, 114, 111, 53, 48>>, doc |-> Some(<<32, 77, 97, 99, 114, 111, 32, 53, 48>>), code |-> None],
        \* /// Macro 51 | Macro51
        [name |-> <<77, 97, 99, 114, 111, 53, 49>>, doc |-> Some(<<32, 77, 97, 99, 114, 111, 32, 53, 49>>), code |-> None],
        \* /// Macro 52 | Macro52
        [name |-> <<77, 97, 99, 114, 111, 53, 50>>, doc |-> Some(<<32, 77, 97, 99, 114, 111, 32, 53, 50>>), code |-> None],
        \* /// Macro 53 | Macro53
        [name |-> <<77, 97, 99, 114, 111, 53, 51>>, doc |-> Some(<<32, 77, 97, 99, 114, 111, 32, 53, 51>>), code |-> None],
        \* /// Macro 54 | Macro54
        [name |-> <<77, 97, 99, 114, 111, 53, 52>>, doc |-> Some(<<32, 77, 97, 99, 114, 111, 32, 53, 52>>), code |-> None],
        \* /// Macro 55 | Macro55
        [name |-> <<77, 97, 99, 114, 111, 53, 53>>, doc |-> Some(<<32, 77, 97, 99, 114, 111, 32, 53, 53>>), code |-> None],
        \* /// Macro 56 | Macro56
        [name |-> <<77, 97, 99, 114, 111, 53, 54>>, doc |-> Some(<<32, 77, 97, 99, 114, 111, 32, 53, 54>>), code |-> None],
        \* /// Macro 57 | Macro57
        [name |-> <<77, 97, 99, 114, 111, 53, 55>>, doc |-> Some(<<32, 77, 97, 99, 114, 111, 32, 53, 55>>), code |-> None],
        \* /// Macro 58 | Macro58
        [name |-> <<77, 97, 99, 114, 111, 53, 56>>, doc |-> Some(<<32, 77, 97, 99, 114, 111, 32, 53, 56>>), code |-> None],
        \* /// Macro 59 | Macro59
        [name |-> <<77, 97, 99, 114, 111, 53, 57>>, doc |-> Some(<<32, 77, 97, 99, 114, 111, 32, 53, 57>>), code |-> None],
        \* /// Macro 60 | Macro60
        [name |-> <<77, 97, 99, 114, 111, 54, 48>>, doc |-> Some(<<32, 77, 97, 99, 114, 111, 32, 54, 48>>), code |-> None],
        \* /// Macro 61 | Macro61
        [name |-> <<77, 97, 99, 114, 111, 54, 49>>, doc |-> Some(<<32, 77, 97, 99, 114, 111, 32, 54, 49>>), code |-> None],
        \* /// Macro 62 | Macro62
        [name |-> <<77, 97, 99, 114, 111, 54, 50>>, doc |-> Some(<<32, 77, 97, 99, 114, 111, 32, 54, 50>>), code |-> None],
        \* /// Macro 63 | Macro63
        [name |-> <<77, 97, 99, 114, 111, 54, 51>>, doc |-> Some(<<32, 77, 97, 99, 114, 111, 32, 54, 51>>), code |-> None],
        \* /// Macro 64 | Macro64
        [name |-> <<77, 97, 99, 114, 111, 54, 52>>, doc |-> Some(<<32, 77, 97, 99, 114, 111, 32, 54, 52>>), code |-> None],
        \* /// Macro 65 | Macro65
        [name |-> <<77, 97, 99, 114, 111, 54, 53>>, doc |-> Some(<<32, 77, 97, 99, 114, 111, 32, 54, 53>>), code |-> None],
        \* /// Macro 66 | Macro66
        [name |-> <<77, 97, 99, 114, 111, 54, 54>>, doc |-> Some(<<32, 77, 97, 99, 114, 111, 32, 54, 54>>), code |-> None],
        \* /// Macro 67 | Macro67
        [name |-> <<77, 97, 99, 114, 111, 54, 55>>, doc |-> Some(<<32, 77, 97, 99, 114, 111, 32, 54, 55>>), code |-> None],
        \* /// Macro 68 | Macro68
        [name |-> <<77, 97, 99, 114, 111, 54, 56>>, doc |-> Some(<<32, 77, 97, 99, 114, 111, 32, 54, 56>>), code |-> None],
        \* /// Macro 69 | Macro69
        [name |-> <<77, 97, 99, 114, 111, 54, 57>>, doc |-> Some(<<32, 77, 97, 99, 114, 111, 32, 54, 57>>), code |-> None],
        \* /// Macro 70 | Macro70
        [name |-> <<77, 97, 99, 114, 111, 55, 48>>, doc |-> Some(<<32, 77, 97, 99, 114, 111, 32, 55, 48>>), code |-> None],
        \* /// Macro 71 | Macro71
        [name |-> <<77, 97, 99, 114, 111, 55, 49>>, doc |-> Some(<<32, 77, 97, 99, 114, 111, 32, 55, 49>>), code |-> None],
        \* /// Macro 72 | Macro72
        [name |-> <<77, 97, 99, 114, 111, 55, 50>>, doc |-> Some(<<32, 77, 97, 99, 114, 111, 32, 55, 50>>), code |-> None],
        \* /// Macro 73 | Macro73
        [name |-> <<77, 97, 99, 114, 111, 55, 51>>, doc |-> Some(<<32, 77, 97, 99, 114, 111, 32, 55, 51>>), code |-> None],
        \* /// Macro 74 | Macro74
        [name |-> <<77, 97, 99, 114, 111, 55, 52>>, doc |-> Some(<<32, 77, 97, 99, 114, 111, 32, 55, 52>>), code |-> None],
        \* /// Macro 75 | Macro75
        [name |-> <<77, 97, 99, 114, 111, 55, 53>>, doc |-> Some(<<32, 77, 97, 99, 114, 111, 32, 55, 53>>), code |-> None],
        \* /// Macro 76 | Macro76
        [name |-> <<77, 97, 99, 114, 111, 55, 54>>, doc |-> Some(<<32, 77, 97, 99, 114, 111, 32, 55, 54>>), code |-> None],
        \* /// Macro 77 | Macro77
        [name |-> <<77, 97, 99, 114, 111, 55, 55>>, doc |-> Some(<<32, 77, 97, 99, 114, 111, 32, 55, 55>>), code |-> None],
        \* /// Macro 78 | Macro78
        [name |-> <<77, 97, 99, 114, 111, 55, 56>>, doc |-> Some(<<32, 77, 97, 99, 114, 111, 32, 55, 56>>), code |-> None],
        \* /// Macro 79 | Macro79
        [name |-> <<77, 97, 99, 114, 111, 55, 57>>, doc |-> Some(<<32, 77, 97, 99, 114, 111, 32, 55, 57>>), code |-> None],
        \* /// Macro 80 | Macro80
        [name |-> <<77, 97, 99, 114, 111, 56, 48>>, doc |-> Some(<<32, 77, 97, 99, 114, 111, 32, 56, 48>>), code |-> None],
        \* /// Macro 81 | Macro81
        [name |-> <<77, 97, 99, 114, 111, 56, 49>>, doc |-> Some(<<32, 77, 97, 99, 114, 111, 32, 56, 49>>), code |-> None],
        \* /// Macro 82 | Macro82
        [name |-> <<77, 97, 99, 114, 111, 56, 50>>, doc |-> Some(<<32, 77, 97, 99, 114, 111, 32, 56, 50>>), code |-> None],
        \* /// Macro 83 | Macro83
        [name |-> <<77, 97, 99, 114, 111, 56, 51>>, doc |-> Some(<<32, 77, 97, 99, 114, 111, 32, 56, 51>>), code |-> None],
        \* /// Macro 84 | Macro84
        [name |-> <<77, 97, 99, 114, 111, 56, 52>>, doc |-> Some(<<32, 77, 97, 99, 114, 111, 32, 56, 52>>), code |-> None],
        \* /// Macro 85 | Macro85
        [name |-> <<77, 97, 99, 114, 111, 56, 53>>, doc |-> Some(<<32, 77, 97, 99, 114, 111, 32, 56, 53>>), code |-> None],
        \* /// Macro 86 | Macro86
        [name |-> <<77, 97, 99, 114, 111, 56, 54>>, doc |-> Some(<<32, 77, 97, 99, 114, 111, 32, 56, 54>>), code |-> None],
        \* /// Macro 87 | Macro87
        [name |-> <<77, 97, 99, 114, 111, 56, 55>>, doc |-> Some(<<32, 77, 97, 99, 114, 111, 32, 56, 55>>), code |-> None],
        \* /// Macro 88 | Macro88
        [name |-> <<77, 97, 99, 114, 111, 56, 56>>, doc |-> Some(<<32, 77, 97, 99, 114, 111, 32, 56, 56>>), code |-> None],
        \* /// Macro 89 | Macro89
        [name |-> <<77, 97, 99, 114, 111, 56, 57>>, doc |-> Some(<<32, 77, 97, 99, 114, 111, 32, 56, 57>>), code |-> None],
        \* /// Macro 90 | Macro90
        [name |-> <<77, 97, 99, 114, 111, 57, 48>>, doc |-> Some(<<32, 77, 97, 99, 114, 111, 32, 57, 48>>), code |-> None],
        \* /// Macro 91 | Macro91
        [name |-> <<77, 97, 99, 114, 111, 57, 49>>, doc |-> Some(<<32, 77, 97, 99, 114, 111, 32, 57, 49>>), code |-> None],
        \* /// Macro 92 | Macro92
        [name |-> <<77, 97, 99, 114, 111, 57, 50>>, doc |-> Some(<<32, 77, 97, 99, 114, 111, 32, 57, 50>>), code |-> None],
        \* /// Macro 93 | Macro93
        [name |-> <<77, 97, 99, 114, 111, 57, 51>>, doc |-> Some(<<32, 77, 97, 99, 114, 111, 32, 57, 51>>), code |-> None],
        \* /// Macro 94 | Macro94
        [name |-> <<77, 97, 99, 114, 111, 57, 52>>, doc |-> Some(<<32, 77, 97, 99, 114, 111, 32, 57, 52>>), code |-> None],
        \* /// Macro 95 | Macro95
        [name |-> <<77, 97, 99, 114, 111, 57, 53>>, doc |-> Some(<<32, 77, 97, 99, 114, 111, 32, 57, 53>>), code |-> None],
        \* /// Macro 96 | Macro96
        [name |-> <<77, 97, 99, 114, 111, 57, 54>>, doc |-> Some(<<32, 77, 97, 99, 114, 111, 32, 57, 54>>), code |-> None],
        \* /// Macro 97 | Macro97
        [name |-> <<77, 97, 99, 114, 111, 57, 55>>, doc |-> Some(<<32, 77, 97, 99, 114, 111, 32, 57, 55>>), code |-> None],
        \* /// Macro 98 | Macro98
        [name |-> <<77, 97, 99, 114, 111, 57, 56>>, doc |-> Some(<<32, 77, 97, 99, 114, 111, 32, 57, 56>>), code |-> None],
        \* /// Macro 99 | Macro99
        [name |-> <<77, 97, 99, 114, 111, 57, 57>>, doc |-> Some(<<32, 77, 97, 99, 114, 111, 32, 57, 57>>), code |-> None],
        \* /// Macro 100 | Macro100
        [name |-> <<77, 97, 99, 114, 111, 49, 48, 48>>, doc |-> Some(<<32, 77, 97, 99, 114, 111, 32, 49, 48, 48>>), code |-> None],
        \* /// Macro 101 | Macro101
        [name |-> <<77, 97, 99, 114, 111, 49, 48, 49>>, doc |-> Some(<<32, 77, 97, 99, 114, 111, 32, 49, 48, 49>>), code |-> None],
        \* /// Macro 102 | Macro102
        [name |-> <<77, 97, 99, 114, 111, 49, 48, 50>>, doc |-> Some(<<32, 77, 97, 99, 114, 111, 32, 49, 48, 50>>), code |-> None],
        \* /// Macro 103 | Macro103
        [name |-> <<77, 97, 99, 114, 111, 49, 48, 51>>, doc |-> Some(<<32, 77, 97, 99, 114, 111, 32, 49, 48, 51>>), code |-> None],
        \* /// Macro 104 | Macro104
        [name |-> <<77, 97, 99, 114, 111, 49, 48, 52>>, doc |-> Some(<<32, 77, 97, 99, 114, 111, 32, 49, 48, 52>>), code |-> None],
        \* /// Macro 105 | Macro105
        [name |-> <<77, 97, 99, 114, 111, 49, 48, 53>>, doc |-> Some(<<32, 77, 97, 99, 114, 111, 32, 49, 48, 53>>), code |-> None],
        \* /// Macro 106 | Macro106
        [name |-> <<77, 97, 99, 114, 111, 49, 48, 54>>, doc |-> Some(<<32, 77, 97, 99, 114, 111, 32, 49, 48, 54>>), code |-> None],
        \* /// Macro 107 | Macro107
        [name |-> <<77, 97, 99, 114, 111, 49, 48, 55>>, doc |-> Some(<<32, 77, 97, 99, 114, 111, 32, 49, 48, 55>>), code |-> None],
        \* /// Macro 108 | Macro108
        [name |-> <<77, 97, 99, 114, 111, 49, 48, 56>>, doc |-> Some(<<32, 77, 97, 99, 114, 111, 32, 49, 48, 56>>), code |-> None],
        \* /// Macro 109 | Macro109
        [name |-> <<77, 97, 99, 114, 111, 49, 48, 57>>, doc |-> Some(<<32, 77, 97, 99, 114, 111, 32, 49, 48, 57>>), code |-> None],
        \* /// Macro 110 | Macro110
        [name |-> <<77, 97, 99, 114, 111, 49, 49, 48>>, doc |-> Some(<<32, 77, 97, 99, 114, 111, 32, 49, 49, 48>>), code |-> None],
        \* /// Macro 111 | Macro111
        [name |-> <<77, 97, 99, 114, 111, 49, 49, 49>>, doc |-> Some(<<32, 77, 97, 99, 114, 111, 32, 49, 49, 49>>), code |-> None],
        \* /// Macro 112 | Macro112
        [name |-> <<77, 97, 99, 114, 111, 49, 49, 50>>, doc |-> Some(<<32, 77, 97, 99, 114, 111, 32, 49, 49, 50>>), code |-> None],
        \* /// Macro 113 | Macro113
        [name |-> <<77, 97, 99, 114, 111, 49, 49, 51>>, doc |-> Some(<<32, 77, 97, 99, 114, 111, 32, 49, 49, 51>>), code |-> None],
        \* /// Macro 114 | Macro114
        [name |-> <<77, 97, 99, 114, 111, 49, 49, 52>>, doc |-> Some(<<32, 77, 97, 99, 114, 111, 32, 49, 49, 52>>), code |-> None],
        \* /// Macro 115 | Macro115
        [name |-> <<77, 97, 99, 114, 111, 49, 49, 53>>, doc |-> Some(<<32, 77, 97, 99, 114, 111, 32, 49, 49, 53>>), code |-> None],
        \* /// Macro 116 | Macro116
        [name |-> <<77, 97, 99, 114, 111, 49, 49, 54>>, doc |-> Some(<<32, 77, 97, 99, 114, 111, 32, 49, 49, 54>>), code |-> None],
        \* /// Macro 117 | Macro117
        [name |-> <<77, 97, 99, 114, 111, 49, 49, 55>>, doc |-> Some(<<32, 77, 97, 99, 114, 111, 32, 49, 49, 55>>), code |-> None],
        \* /// Macro 118 | Macro118
        [name |-> <<77, 97, 99, 114, 111, 49, 49, 56>>, doc |-> Some(<<32, 77, 97, 99, 114, 111, 32, 49, 49, 56>>), code |-> None],
        \* /// Macro 119 | Macro119
        [name |-> <<77, 97, 99, 114, 111, 49, 49, 57>>, doc |-> Some(<<32, 77, 97, 99, 114, 111, 32, 49, 49, 57>>), code |-> None],
        \* /// Macro 120 | Macro120
        [name |-> <<77, 97, 99, 114, 111, 49, 50, 48>>, doc |-> Some(<<32, 77, 97, 99, 114, 111, 32, 49, 50, 48>>), code |-> None],
        \* /// Macro 121 | Macro121
        [name |-> <<77, 97, 99, 114, 111, 49, 50, 49>>, doc |-> Some(<<32, 77, 97, 99, 114, 111, 32, 49, 50, 49>>), code |-> None],
        \* /// Macro 122 | Macro122
        [name |-> <<77, 97, 99, 114, 111, 49, 50, 50>>, doc |-> Some(<<32, 77, 97, 99, 114, 111, 32, 49, 50, 50>>), code |-> None],
        \* /// Macro 123 | Macro123
        [name |-> <<77, 97, 99, 114, 111, 49, 50, 51>>, doc |-> Some(<<32, 77, 97, 99, 114, 111, 32, 49, 50, 51>>), code |-> None],
        \* /// Macro 124 | Macro124
        [name |-> <<77, 97, 99, 114, 111, 49, 50, 52>>, doc |-> Some(<<32, 77, 97, 99, 114, 111, 32, 49, 50, 52>>), code |-> None],
        \* /// Macro 125 | Macro125
        [name |-> <<77, 97, 99, 114, 111, 49, 50, 53>>, doc |-> Some(<<32, 77, 97, 99, 114, 111, 32, 49, 50, 53>>), code |-> None],
        \* /// Macro 126 | Macro126
        [name |-> <<77, 97, 99, 114, 111, 49, 50, 54>>, doc |-> Some(<<32, 77, 97, 99, 114, 111, 32, 49, 50, 54>>), code |-> None],
        \* /// Macro 127 | Macro127
        [name |-> <<77, 97, 99, 114, 111, 49, 50, 55>>, doc |-> Some(<<32, 77, 97, 99, 114, 111, 32, 49, 50, 55>>), code |-> None],
        \* /// Macro 128 | Macro128
        [name |-> <<77, 97, 99, 114, 111, 49, 50, 56>>, doc |-> Some(<<32, 77, 97, 99, 114, 111, 32, 49, 50, 56>>), code |-> None]
    >>],
    [name |-> "super_keys", with_modifiers |-> FALSE, with_dual_functions |-> FALSE, keys |-> <<
        \* /// Super Key 1 | Super1 = 53980
        [name |-> <<83, 117, 112, 101, 114, 49>>, doc |-> Some(<<32, 83, 117, 112, 101, 114, 32, 75, 101, 121, 32, 49>>), code |-> Some(53980)],
        \* /// Super Key 2 | Super2
        [name |-> <<83, 117, 112, 101, 114, 50>>, doc |-> Some(<<32, 83, 117, 112, 101, 114, 32, 75, 101, 121, 32, 50>>), code |-> None],
        \* /// Super Key 3 | Super3
        [name |-> <<83, 117, 112, 101, 114, 51>>, doc |-> Some(<<32, 83, 117, 112, 101, 114, 32, 75, 101, 121, 32, 51>>), code |-> None],
        \* /// Super Key 4 | Super4
        [name |-> <<83, 117, 112, 101, 114, 52>>, doc |-> Some(<<32, 83, 117, 112, 101, 114, 32, 75, 101, 121, 32, 52>>), code |-> None],
        \* /// Super Key 5 | Super5
        [name |-> <<83, 117, 112, 101, 114, 53>>, doc |-> Some(<<32, 83, 117, 112, 101, 114, 32, 75, 101, 121, 32, 53>>), code |-> None],
        \* /// Super Key 6 | Super6
        [name |-> <<83, 117, 112, 101, 114, 54>>, doc |-> Some(<<32, 83, 117, 112, 101, 114, 32, 75, 101, 121, 32, 54>>), code |-> None],
        \* /// Super Key 7 | Super7
        [name |-> <<83, 117, 112, 101, 114, 55>>, doc |-> Some(<<32, 83, 117, 112, 101, 114, 32, 75, 101, 121, 32, 55>>), code |-> None],
        \* /// Super Key 8 | Super8
        [name |-> <<83, 117, 112, 101, 114, 56>>, doc |-> Some(<<32, 83, 117, 112, 101, 114, 32, 75, 101, 121, 32, 56>>), code |-> None],
        \* /// Super Key 9 | Super9
        [name |-> <<83, 117, 112, 101, 114, 57>>, doc |-> Some(<<32, 83, 117, 112, 101, 114, 32, 75, 101, 121, 32, 57>>), code |-> None],
        \* /// Super Key 10 | Super10
        [name |-> <<83, 117, 112, 101, 114, 49, 48>>, doc |-> Some(<<32, 83, 117, 112, 101, 114, 32, 75, 101, 121, 32, 49, 48>>), code |-> None],
        \* /// Super Key 11 | Super11
        [name |-> <<83, 117, 112, 101, 114, 49, 49>>, doc |-> Some(<<32, 83, 117, 112, 101, 114, 32, 75, 101, 121, 32, 49, 49>>), code |-> None],
        \* /// Super Key 12 | Super12
        [name |-> <<83, 117, 112, 101, 114, 49, 50>>, doc |-> Some(<<32, 83, 117, 112, 101, 114, 32, 75, 101, 121, 32, 49, 50>>), code |-> None],
        \* /// Super Key 13 | Super13
        [name |-> <<83, 117, 112, 101, 114, 49, 51>>, doc |-> Some(<<32, 83, 117, 112, 101, 114, 32, 75, 101, 121, 32, 49, 51>>), code |-> None],
        \* /// Super Key 14 | Super14
        [name |-> <<83, 117, 112, 101, 114, 49, 52>>, doc |-> Some(<<32, 83, 117, 112, 101, 114, 32, 75, 101, 121, 32, 49, 52>>), code |-> None],
        \* /// Super Key 15 | Super15
        [name |-> <<83, 117, 112, 101, 114, 49, 53>>, doc |-> Some(<<32, 83, 117, 112, 101, 114, 32, 75, 101, 121, 32, 49, 53>>), code |-> None],
        \* /// Super Key 16 | Super16
        [name |-> <<83, 117, 112, 101, 114, 49, 54>>, doc |-> Some(<<32, 83, 117, 112, 101, 114, 32, 75, 101, 121, 32, 49, 54>>), code |-> None],
        \* /// Super Key 17 | Super17
        [name |-> <<83, 117, 112, 101, 114, 49, 55>>, doc |-> Some(<<32, 83, 117, 112, 101, 114, 32, 75, 101, 121, 32, 49, 55>>), code |-> None],
        \* /// Super Key 18 | Super18
        [name |-> <<83, 117, 112, 101, 114, 49, 56>>, doc |-> Some(<<32, 83, 117, 112, 101, 114, 32, 75, 101, 121, 32, 49, 56>>), code |-> None],
        \* /// Super Key 19 | Super19
        [name |-> <<83, 117, 112, 101, 114, 49, 57>>, doc |-> Some(<<32, 83, 117, 112, 101, 114, 32, 75, 101, 121, 32, 49, 57>>), code |-> None],
        \* /// Super Key 20 | Super20
        [name |-> <<83, 117, 112, 101, 114, 50, 48>>, doc |-> Some(<<32, 83, 117, 112, 101, 114, 32, 75, 101, 121, 32, 50, 48>>), code |-> None],
        \* /// Super Key 21 | Super21
        [name |-> <<83, 117, 112, 101, 114, 50, 49>>, doc |-> Some(<<32, 83, 117, 112, 101, 114, 32, 75, 101, 121, 32, 50, 49>>), code |-> None],
        \* /// Super Key 22 | Super22
        [name |-> <<83, 117, 112, 101, 114, 50, 50>>, doc |-> Some(<<32, 83, 117, 112, 101, 114, 32, 75, 101, 121, 32, 50, 50>>), code |-> None],
        \* /// Super Key 23 | Super23
        [name |-> <<83, 117, 112, 101, 114, 50, 51>>, doc |-> Some(<<32, 83, 117, 112, 101, 114, 32, 75, 101, 121, 32, 50, 51>>), code |-> None],
        \* /// Super Key 24 | Super24
        [name |-> <<83, 117, 112, 101, 114, 50, 52>>, doc |-> Some(<<32, 83, 117, 112, 101, 114, 32, 75, 101, 121, 32, 50, 52>>), code |-> None],
        \* /// Super Key 25 | Super25
        [name |-> <<83, 117, 112, 101, 114, 50, 53>>, doc |-> Some(<<32, 83, 117, 112, 101, 114, 32, 75, 101, 121, 32, 50, 53>>), code |-> None],
        \* /// Super Key 26 | Super26
        [name |-> <<83, 117, 112, 101, 114, 50, 54>>, doc |-> Some(<<32, 83, 117, 112, 101, 114, 32, 75, 101, 121, 32, 50, 54>>), code |-> None],
        \* /// Super Key 27 | Super27
        [name |-> <<83, 117, 112, 101, 114, 50, 55>>, doc |-> Some(<<32, 83, 117, 112, 101, 114, 32, 75, 101, 121, 32, 50, 55>>), code |-> None],
        \* /// Super Key 28 | Super28
        [name |-> <<83, 117, 112, 101, 114, 50, 56>>, doc |-> Some(<<32, 83, 117, 112, 101, 114, 32, 75, 101, 121, 32, 50, 56>>), code |-> None],
        \* /// Super Key 29 | Super29
        [name |-> <<83, 117, 112, 101, 114, 50, 57>>, doc |-> Some(<<32, 83, 117, 112, 101, 114, 32, 75, 101, 121, 32, 50, 57>>), code |-> None],
        \* /// Super Key 30 | Super30
        [name |-> <<83, 117, 112, 101, 114, 51, 48>>, doc |-> Some(<<32, 83, 117, 112, 101, 114, 32, 75, 101, 121, 32, 51, 48>>), code |-> None],
        \* /// Super Key 31 | Super31
        [name |-> <<83, 117, 112, 101, 114, 51, 49>>, doc |-> Some(<<32, 83, 117, 112, 101, 114, 32, 75, 101, 121, 32, 51, 49>>), code |-> None],
        \* /// Super Key 32 | Super32
        [name |-> <<83, 117, 112, 101, 114, 51, 50>>, doc |-> Some(<<32, 83, 117, 112, 101, 114, 32, 75, 101, 121, 32, 51, 50>>), code |-> None],
        \* /// Super Key 33 | Super33
        [name |-> <<83, 117, 112, 101, 114, 51, 51>>, doc |-> Some(<<32, 83, 117, 112, 101, 114, 32, 75, 101, 121, 32, 51, 51>>), code |-> None],
        \* /// Super Key 34 | Super34
        [name |-> <<83, 117, 112, 101, 114, 51, 52>>, doc |-> Some(<<32, 83, 117, 112, 101, 114, 32, 75, 101, 121, 32, 51, 52>>), code |-> None],
        \* /// Super Key 35 | Super35
        [name |-> <<83, 117, 112, 101, 114, 51, 53>>, doc |-> Some(<<32, 83, 117, 112, 101, 114, 32, 75, 101, 121, 32, 51, 53>>), code |-> None],
        \* /// Super Key 36 | Super36
        [name |-> <<83, 117, 112, 101, 114, 51, 54>>, doc |-> Some(<<32, 83, 117, 112, 101, 114, 32, 75, 101, 121, 32, 51, 54>>), code |-> None],
        \* /// Super Key 37 | Super37
        [name |-> <<83, 117, 112, 101, 114, 51, 55>>, doc |-> Some(<<32, 83, 117, 112, 101, 114, 32, 75, 101, 121, 32, 51, 55>>), code |-> None],
        \* /// Super Key 38 | Super38
        [name |-> <<83, 117, 112, 101, 114, 51, 56>>, doc |-> Some(<<32, 83, 117, 112, 101, 114, 32, 75, 101, 121, 32, 51, 56>>), code |-> None],
        \* /// Super Key 39 | Super39
        [name |-> <<83, 117, 112, 101, 114, 51, 57>>, doc |-> Some(<<32, 83, 117, 112, 101, 114, 32, 75, 101, 121, 32, 51, 57>>), code |-> None],
        \* /// Super Key 40 | Super40
        [name |-> <<83, 117, 112, 101, 114, 52, 48>>, doc |-> Some(<<32, 83, 117, 112, 101, 114, 32, 75, 101, 121, 32, 52, 48>>), code |-> None],
        \* /// Super Key 41 | Super41
        [name |-> <<83, 117, 112, 101, 114, 52, 49>>, doc |-> Some(<<32, 83, 117, 112, 101, 114, 32, 75, 101, 121, 32, 52, 49>>), code |-> None],
        \* /// Super Key 42 | Super42
        [name |-> <<83, 117, 112, 101, 114, 52, 50>>, doc |-> Some(<<32, 83, 117, 112, 101, 114, 32, 75, 101, 121, 32, 52, 50>>), code |-> None],
        \* /// Super Key 43 | Super43
        [name |-> <<83, 117, 112, 101, 114, 52, 51>>, doc |-> Some(<<32, 83, 117, 112, 101, 114, 32, 75, 101, 121, 32, 52, 51>>), code |-> None],
        \* /// Super Key 44 | Super44
        [name |-> <<83, 117, 112, 101, 114, 52, 52>>, doc |-> Some(<<32, 83, 117, 112, 101, 114, 32, 75, 101, 121, 32, 52, 52>>), code |-> None],
        \* /// Super Key 45 | Super45
        [name |-> <<83, 117, 112, 101, 114, 52, 53>>, doc |-> Some(<<32, 83, 117, 112, 101, 114, 32, 75, 101, 121, 32, 52, 53>>), code |-> None],
        \* /// Super Key 46 | Super46
        [name |-> <<83, 117, 112, 101, 114, 52, 54>>, doc |-> Some(<<32, 83, 117, 112, 101, 114, 32, 75, 101, 121, 32, 52, 54>>), code |-> None],
        \* /// Super Key 47 | Super47
        [name |-> <<83, 117, 112, 101, 114, 52, 55>>, doc |-> Some(<<32, 83, 117, 112, 101, 114, 32, 75, 101, 121, 32, 52, 55>>), code |-> None],
        \* /// Super Key 48 | Super48
        [name |-> <<83, 117, 112, 101, 114, 52, 56>>, doc |-> Some(<<32, 83, 117, 112, 101, 114, 32, 75, 101, 121, 32, 52, 56>>), code |-> None],
        \* /// Super Key 49 | Super49
        [name |-> <<83, 117, 112, 101, 114, 52, 57>>, doc |-> Some(<<32, 83, 117, 112, 101, 114, 32, 75, 101, 121, 32, 52, 57>>), code |-> None],
        \* /// Super Key 50 | Super50
        [name |-> <<83, 117, 112, 101, 114, 53, 48>>, doc |-> Some(<<32, 83, 117, 112, 101, 114, 32, 75, 101, 121, 32, 53, 48>>), code |-> None],
        \* /// Super Key 51 | Super51
        [name |-> <<83, 117, 112, 101, 114, 53, 49>>, doc |-> Some(<<32, 83, 117, 112, 101, 114, 32, 75, 101, 121, 32, 53, 49>>), code |-> None],
        \* /// Super Key 52 | Super52
        [name |-> <<83, 117, 112, 101, 114, 53, 50>>, doc |-> Some(<<32, 83, 117, 112, 101, 114, 32, 75, 101, 121, 32, 53, 50>>), code |-> None],
        \* /// Super Key 53 | Super53
        [name |-> <<83, 117, 112, 101, 114, 53, 51>>, doc |-> Some(<<32, 83, 117, 112, 101, 114, 32, 75, 101, 121, 32, 53, 51>>), code |-> None],
        \* /// Super Key 54 | Super54
        [name |-> <<83, 117, 112, 101, 114, 53, 52>>, doc |-> Some(<<32, 83, 117, 112, 101, 114, 32, 75, 101, 121, 32, 53, 52>>), code |-> None],
        \* /// Super Key 55 | Super55
        [name |-> <<83, 117, 112, 101, 114, 53, 53>>, doc |-> Some(<<32, 83, 117, 112, 101, 114, 32, 75, 101, 121, 32, 53, 53>>), code |-> None],
        \* /// Super Key 56 | Super56
        [name |-> <<83, 117, 112, 101, 114, 53, 54>>, doc |-> Some(<<32, 83, 117, 112, 101, 114, 32, 75, 101, 121, 32, 53, 54>>), code |-> None],
        \* /// Super Key 57 | Super57
        [name |-> <<83, 117, 112, 101, 114, 53, 55>>, doc |-> Some(<<32, 83, 117, 112, 101, 114, 32, 75, 101, 121, 32, 53, 55>>), code |-> None],
        \* /// Super Key 58 | Super58
        [name |-> <<83, 117, 112, 101, 114, 53, 56>>, doc |-> Some(<<32, 83, 117, 112, 101, 114, 32, 75, 101, 121, 32, 53, 56>>), code |-> None],
        \* /// Super Key 59 | Super59
        [name |-> <<83, 117, 112, 101, 114, 53, 57>>, doc |-> Some(<<32, 83, 117, 112, 101, 114, 32, 75, 101, 121, 32, 53, 57>>), code |-> None],
        \* /// Super Key 60 | Super60
        [name |-> <<83, 117, 112, 101, 114, 54, 48>>, doc |-> Some(<<32, 83, 117, 112, 101, 114, 32, 75, 101, 121, 32, 54, 48>>), code |-> None],
        \* /// Super Key 61 | Super61
        [name |-> <<83, 117, 112, 101, 114, 54, 49>>, doc |-> Some(<<32, 83, 117, 112, 101, 114, 32, 75, 101, 121, 32, 54, 49>>), code |-> None],
        \* /// Super Key 62 | Super62
        [name |-> <<83, 117, 112, 101, 114, 54, 50>>, doc |-> Some(<<32, 83, 117, 112, 101, 114, 32, 75, 101, 121, 32, 54, 50>>), code |-> None],
        \* /// Super Key 63 | Super63
        [name |-> <<83, 117, 112, 101, 114, 54, 51>>, doc |-> Some(<<32, 83, 117, 112, 101, 114, 32, 75, 101, 121, 32, 54, 51>>), code |-> None],
        \* /// Super Key 64 | Super64
        [name |-> <<83, 117, 112, 101, 114, 54, 52>>, doc |-> Some(<<32, 83, 117, 112, 101, 114, 32, 75, 101, 121, 32, 54, 52>>), code |-> None],
        \* /// Super Key 65 | Super65
        [name |-> <<83, 117, 112, 101, 114, 54, 53>>, doc |-> Some(<<32, 83, 117, 112, 101, 114, 32, 75, 101, 121, 32, 54, 53>>), code |-> None],
        \* /// Super Key 66 | Super66
        [name |-> <<83, 117, 112, 101, 114, 54, 54>>, doc |-> Some(<<32, 83, 117, 112, 101, 114, 32, 75, 101, 121, 32, 54, 54>>), code |-> None],
        \* /// Super Key 67 | Super67
        [name |-> <<83, 117, 112, 101, 114, 54, 55>>, doc |-> Some(<<32, 83, 117, 112, 101, 114, 32, 75, 101, 121, 32, 54, 55>>), code |-> None],
        \* /// Super Key 68 | Super68
        [name |-> <<83, 117, 112, 101, 114, 54, 56>>, doc |-> Some(<<32, 83, 117, 112, 101, 114, 32, 75, 101, 121, 32, 54, 56>>), code |-> None],
        \* /// Super Key 69 | Super69
        [name |-> <<83, 117, 112, 101, 114, 54, 57>>, doc |-> Some(<<32, 83, 117, 112, 101, 114, 32, 75, 101, 121, 32, 54, 57>>), code |-> None],
        \* /// Super Key 70 | Super70
        [name |-> <<83, 117, 112, 101, 114, 55, 48>>, doc |-> Some(<<32, 83, 117, 112, 101, 114, 32, 75, 101, 121, 32, 55, 48>>), code |-> None],
        \* /// Super Key 71 | Super71
        [name |-> <<83, 117, 112, 101, 114, 55, 49>>, doc |-> Some(<<32, 83, 117, 112, 101, 114, 32, 75, 101, 121, 32, 55, 49>>), code |-> None],
        \* /// Super Key 72 | Super72
        [name |-> <<83, 117, 112, 101, 114, 55, 50>>, doc |-> Some(<<32, 83, 117, 112, 101, 114, 32, 75, 101, 121, 32, 55, 50>>), code |-> None],
        \* /// Super Key 73 | Super73
        [name |-> <<83, 117, 112, 101, 114, 55, 51>>, doc |-> Some(<<32, 83, 117, 112, 101, 114, 32, 75, 101, 121, 32, 55, 51>>), code |-> None],
        \* /// Super Key 74 | Super74
        [name |-> <<83, 117, 112, 101, 114, 55, 52>>, doc |-> Some(<<32, 83, 117, 112, 101, 114, 32, 75, 101, 121, 32, 55, 52>>), code |-> None],
        \* /// Super Key 75 | Super75
        [name |-> <<83, 117, 112, 101, 114, 55, 53>>, doc |-> Some(<<32, 83, 117, 112, 101, 114, 32, 75, 101, 121, 32, 55, 53>>), code |-> None],
        \* /// Super Key 76 | Super76
        [name |-> <<83, 117, 112, 101, 114, 55, 54>>, doc |-> Some(<<32, 83, 117, 112, 101, 114, 32, 75, 101, 121, 32, 55, 54>>), code |-> None],
        \* /// Super Key 77 | Super77
        [name |-> <<83, 117, 112, 101, 114, 55, 55>>, doc |-> Some(<<32, 83, 117, 112, 101, 114, 32, 75, 101, 121, 32, 55, 55>>), code |-> None],
        \* /// Super Key 78 | Super78
        [name |-> <<83, 117, 112, 101, 114, 55, 56>>, doc |-> Some(<<32, 83, 117, 112, 101, 114, 32, 75, 101, 121, 32, 55, 56>>), code |-> None],
        \* /// Super Key 79 | Super79
        [name |-> <<83, 117, 112, 101, 114, 55, 57>>, doc |-> Some(<<32, 83, 117, 112, 101, 114, 32, 75, 101, 121, 32, 55, 57>>), code |-> None],
        \* /// Super Key 80 | Super80
        [name |-> <<83, 117, 112, 101, 114, 56, 48>>, doc |-> Some(<<32, 83, 117, 112, 101, 114, 32, 75, 101, 121, 32, 56, 48>>), code |-> None],
        \* /// Super Key 81 | Super81
        [name |-> <<83, 117, 112, 101, 114, 56, 49>>, doc |-> Some(<<32, 83, 117, 112, 101, 114, 32, 75, 101, 121, 32, 56, 49>>), code |-> None],
        \* /// Super Key 82 | Super82
        [name |-> <<83, 117, 112, 101, 114, 56, 50>>, doc |-> Some(<<32, 83, 117, 112, 101, 114, 32, 75, 101, 121, 32, 56, 50>>), code |-> None],
        \* /// Super Key 83 | Super83
        [name |-> <<83, 117, 112, 101, 114, 56, 51>>, doc |-> Some(<<32, 83, 117, 112, 101, 114, 32, 75, 101, 121, 32, 56, 51>>), code |-> None],
        \* /// Super Key 84 | Super84
        [name |-> <<83, 117, 112, 101, 114, 56, 52>>, doc |-> Some(<<32, 83, 117, 112, 101, 114, 32, 75, 101, 121, 32, 56, 52>>), code |-> None],
        \* /// Super Key 85 | Super85
        [name |-> <<83, 117, 112, 101, 114, 56, 53>>, doc |-> Some(<<32, 83, 117, 112, 101, 114, 32, 75, 101, 121, 32, 56, 53>>), code |-> None],
        \* /// Super Key 86 | Super86
        [name |-> <<83, 117, 112, 101, 114, 56, 54>>, doc |-> Some(<<32, 83, 117, 112, 101, 114, 32, 75, 101, 121, 32, 56, 54>>), code |-> None],
        \* /// Super Key 87 | Super87
        [name |-> <<83, 117, 112, 101, 114, 56, 55>>, doc |-> Some(<<32, 83, 117, 112, 101, 114, 32, 75, 101, 121, 32, 56, 55>>), code |-> None],
        \* /// Super Key 88 | Super88
        [name |-> <<83, 117, 112, 101, 114, 56, 56>>, doc |-> Some(<<32, 83, 117, 112, 101, 114, 32, 75, 101, 121, 32, 56, 56>>), code |-> None],
        \* /// Super Key 89 | Super89
        [name |-> <<83, 117, 112, 101, 114, 56, 57>>, doc |-> Some(<<32, 83, 117, 112, 101, 114, 32, 75, 101, 121, 32, 56, 57>>), code |-> None],
        \* /// Super Key 90 | Super90
        [name |-> <<83, 117, 112, 101, 114, 57, 48>>, doc |-> Some(<<32, 83, 117, 112, 101, 114, 32, 75, 101, 121, 32, 57, 48>>), code |-> None],
        \* /// Super Key 91 | Super91
        [name |-> <<83, 117, 112, 101, 114, 57, 49>>, doc |-> Some(<<32, 83, 117, 112, 101, 114, 32, 75, 101, 121, 32, 57, 49>>), code |-> None],
        \* /// Super Key 92 | Super92
        [name |-> <<83, 117, 112, 101, 114, 57, 50>>, doc |-> Some(<<32, 83, 117, 112, 101, 114, 32, 75, 101, 121, 32, 57, 50>>), code |-> None],
        \* /// Super Key 93 | Super93
        [name |-> <<83, 117, 112, 101, 114, 57, 51>>, doc |-> Some(<<32, 83, 117, 112, 101, 114, 32, 75, 101, 121, 32, 57, 51>>), code |-> None],
        \* /// Super Key 94 | Super94
        [name |-> <<83, 117, 112, 101, 114, 57, 52>>, doc |-> Some(<<32, 83, 117, 112, 101, 114, 32, 75, 101, 121, 32, 57, 52>>), code |-> None],
        \* /// Super Key 95 | Super95
        [name |-> <<83, 117, 112, 101, 114, 57, 53>>, doc |-> Some(<<32, 83, 117, 112, 101, 114, 32, 75, 101, 121, 32, 57, 53>>), code |-> None],
        \* /// Super Key 96 | Super96
        [name |-> <<83, 117, 112, 101, 114, 57, 54>>, doc |-> Some(<<32, 83, 117, 112, 101, 114, 32, 75, 101, 121, 32, 57, 54>>), code |-> None],
        \* /// Super Key 97 | Super97
        [name |-> <<83, 117, 112, 101, 114, 57, 55>>, doc |-> Some(<<32, 83, 117, 112, 101, 114, 32, 75, 101, 121, 32, 57, 55>>), code |-> None],
        \* /// Super Key 98 | Super98
        [name |-> <<83, 117, 112, 101, 114, 57, 56>>, doc |-> Some(<<32, 83, 117, 112, 101, 114, 32, 75, 101, 121, 32, 57, 56>>), code |-> None],
        \* /// Super Key 99 | Super99
        [name |-> <<83, 117, 112, 101, 114, 57, 57>>, doc |-> Some(<<32, 83, 117, 112, 101, 114, 32, 75, 101, 121, 32, 57, 57>>), code |-> None],
        \* /// Super Key 100 | Super100
        [name |-> <<83, 117, 112, 101, 114, 49, 48, 48>>, doc |-> Some(<<32, 83, 117, 112, 101, 114, 32, 75, 101, 121, 32, 49, 48, 48>>), code |-> None],
        \* /// Super Key 101 | Super101
        [name |-> <<83, 117, 112, 101, 114, 49, 48, 49>>, doc |-> Some(<<32, 83, 117, 112, 101, 114, 32, 75, 101, 121, 32, 49, 48, 49>>), code |-> None],
        \* /// Super Key 102 | Super102
        [name |-> <<83, 117, 112, 101, 114, 49, 48, 50>>, doc |-> Some(<<32, 83, 117, 112, 101, 114, 32, 75, 101, 121, 32, 49, 48, 50>>), code |-> None],
        \* /// Super Key 103 | Super103
        [name |-> <<83, 117, 112, 101, 114, 49, 48, 51>>, doc |-> Some(<<32, 83, 117, 112, 101, 114, 32, 75, 101, 121, 32, 49, 48, 51>>), code |-> None],
        \* /// Super Key 104 | Super104
        [name |-> <<83, 117, 112, 101, 114, 49, 48, 52>>, doc |-> Some(<<32, 83, 117, 112, 101, 114, 32, 75, 101, 121, 32, 49, 48, 52>>), code |-> None],
        \* /// Super Key 105 | Super105
        [name |-> <<83, 117, 112, 101, 114, 49, 48, 53>>, doc |-> Some(<<32, 83, 117, 112, 101, 114, 32, 75, 101, 121, 32, 49, 48, 53>>), code |-> None],
        \* /// Super Key 106 | Super106
        [name |-> <<83, 117, 112, 101, 114, 49, 48, 54>>, doc |-> Some(<<32, 83, 117, 112, 101, 114, 32, 75, 101, 121, 32, 49, 48, 54>>), code |-> None],
        \* /// Super Key 107 | Super107
        [name |-> <<83, 117, 112, 101, 114, 49, 48, 55>>, doc |-> Some(<<32, 83, 117, 112, 101, 114, 32, 75, 101, 121, 32, 49, 48, 55>>), code |-> None],
        \* /// Super Key 108 | Super108
        [name |-> <<83, 117, 112, 101, 114, 49, 48, 56>>, doc |-> Some(<<32, 83, 117, 112, 101, 114, 32, 75, 101, 121, 32, 49, 48, 56>>), code |-> None],
        \* /// Super Key 109 | Super109
        [name |-> <<83, 117, 112, 101, 114, 49, 48, 57>>, doc |-> Some(<<32, 83, 117, 112, 101, 114, 32, 75, 101, 121, 32, 49, 48, 57>>), code |-> None],
        \* /// Super Key 110 | Super110
        [name |-> <<83, 117, 112, 101, 114, 49, 49, 48>>, doc |-> Some(<<32, 83, 117, 112, 101, 114, 32, 75, 101, 121, 32, 49, 49, 48>>), code |-> None],
        \* /// Super Key 111 | Super111
        [name |-> <<83, 117, 112, 101, 114, 49, 49, 49>>, doc |-> Some(<<32, 83, 117, 112, 101, 114, 32, 75, 101, 121, 32, 49, 49, 49>>), code |-> None],
        \* /// Super Key 112 | Super112
        [name |-> <<83, 117, 112, 101, 114, 49, 49, 50>>, doc |-> Some(<<32, 83, 117, 112, 101, 114, 32, 75, 101, 121, 32, 49, 49, 50>>), code |-> None],
        \* /// Super Key 113 | Super113
        [name |-> <<83, 117, 112, 101, 114, 49, 49, 51>>, doc |-> Some(<<32, 83, 117, 112, 101, 114, 32, 75, 101, 121, 32, 49, 49, 51>>), code |-> None],
        \* /// Super Key 114 | Super114
        [name |-> <<83, 117, 112, 101, 114, 49, 49, 52>>, doc |-> Some(<<32, 83, 117, 112, 101, 114, 32, 75, 101, 121, 32, 49, 49, 52>>), code |-> None],
        \* /// Super Key 115 | Super115
        [name |-> <<83, 117, 112, 101, 114, 49, 49, 53>>, doc |-> Some(<<32, 83, 117, 112, 101, 114, 32, 75, 101, 121, 32, 49, 49, 53>>), code |-> None],
        \* /// Super Key 116 | Super116
        [name |-> <<83, 117, 112, 101, 114, 49, 49, 54>>, doc |-> Some(<<32, 83, 117, 112, 101, 114, 32, 75, 101, 121, 32, 49, 49, 54>>), code |-> None],
        \* /// Super Key 117 | Super117
        [name |-> <<83, 117, 112, 101, 114, 49, 49, 55>>, doc |-> Some(<<32, 83, 117, 112, 101, 114, 32, 75, 101, 121, 32, 49, 49, 55>>), code |-> None],
        \* /// Super Key 118 | Super118
        [name |-> <<83, 117, 112, 101, 114, 49, 49, 56>>, doc |-> Some(<<32, 83, 117, 112, 101, 114, 32, 75, 101, 121, 32, 49, 49, 56>>), code |-> None],
        \* /// Super Key 119 | Super119
        [name |-> <<83, 117, 112, 101, 114, 49, 49, 57>>, doc |-> Some(<<32, 83, 117, 112, 101, 114, 32, 75, 101, 121, 32, 49, 49, 57>>), code |-> None],
        \* /// Super Key 120 | Super120
        [name |-> <<83, 117, 112, 101, 114, 49, 50, 48>>, doc |-> Some(<<32, 83, 117, 112, 101, 114, 32, 75, 101, 121, 32, 49, 50, 48>>), code |-> None],
        \* /// Super Key 121 | Super121
        [name |-> <<83, 117, 112, 101, 114, 49, 50, 49>>, doc |-> Some(<<32, 83, 117, 112, 101, 114, 32, 75, 101, 121, 32, 49, 50, 49>>), code |-> None],
        \* /// Super Key 122 | Super122
        [name |-> <<83, 117, 112, 101, 114, 49, 50, 50>>, doc |-> Some(<<32, 83, 117, 112, 101, 114, 32, 75, 101, 121, 32, 49, 50, 50>>), code |-> None],
        \* /// Super Key 123 | Super123
        [name |-> <<83, 117, 112, 101, 114, 49, 50, 51>>, doc |-> Some(<<32, 83, 117, 112, 101, 114, 32, 75, 101, 121, 32, 49, 50, 51>>), code |-> None],
        \* /// Super Key 124 | Super124
        [name |-> <<83, 117, 112, 101, 114, 49, 50, 52>>, doc |-> Some(<<32, 83, 117, 112, 101, 114, 32, 75, 101, 121, 32, 49, 50, 52>>), code |-> None],
        \* /// Super Key 125 | Super125
        [name |-> <<83, 117, 112, 101, 114, 49, 50, 53>>, doc |-> Some(<<32, 83, 117, 112, 101, 114, 32, 75, 101, 121, 32, 49, 50, 53>>), code |-> None],
        \* /// Super Key 126 | Super126
        [name |-> <<83, 117, 112, 101, 114, 49, 50, 54>>, doc |-> Some(<<32, 83, 117, 112, 101, 114, 32, 75, 101, 121, 32, 49, 50, 54>>), code |-> None],
        \* /// Super Key 127 | Super127
        [name |-> <<83, 117, 112, 101, 114, 49, 50, 55>>, doc |-> Some(<<32, 83, 117, 112, 101, 114, 32, 75, 101, 121, 32, 49, 50, 55>>), code |-> None],
        \* /// Super Key 128 | Super128
        [name |-> <<83, 117, 112, 101, 114, 49, 50, 56>>, doc |-> Some(<<32, 83, 117, 112, 101, 114, 32, 75, 101, 121, 32, 49, 50, 56>>), code |-> None]
    >>]
>>

----------------------------------------------------------------------------
(* The generator (crate `macros`) *)

U16Max == 65535

\* u8::MAX
U8Max == 255

\* u16::wrapping_add in the place of u16::checked_add
checked_add_Wrapping(a, b) == Some((a + b) % (U16Max + 1))

\* u16::checked_add
checked_add(a, b) == IF a + b <= U16Max THEN Some(a + b) ELSE None

\* the concatenation of a sequence of sequences (flat_map, extend, chain)
RECURSIVE ConcatRange(_, _, _)
ConcatRange(ss, lo, hi) ==
    IF lo > hi THEN <<>>
    ELSE IF lo = hi THEN ss[lo]
    ELSE LET mid == (lo + hi) \div 2
         IN  ConcatRange(ss, lo, mid) \o ConcatRange(ss, mid + 1, hi)

Concat(ss) == ConcatRange(ss, 1, Len(ss))

\* Modifier::as_modifier_value
ModifierValue ==
    [Ctrl |-> 256, Alt |-> 512, AltGr |-> 1024, Shift |-> 2048, Os |-> 4096]

\* #[derive(Display)] of Modifier: "Ctrl", "Alt", "AltGr", "Shift", "Os"
ModifierText ==
    [Ctrl |-> <<67, 116, 114, 108>>, Alt |-> <<65, 108, 116>>,
     AltGr |-> <<65, 108, 116, 71, 114>>, Shift |-> <<83, 104, 105, 102, 116>>,
     Os |-> <<79, 115>>]

\* itertools' powerset of a sequence: by size, then in order of position
RECURSIVE Combinations(_, _)
Combinations(s, k) ==
    IF k = 0 THEN << <<>> >>
    ELSE IF Len(s) < k THEN <<>>
    ELSE LET withHead == Combinations(Tail(s), k - 1)
         IN  [i \in 1..Len(withHead) |-> <<Head(s)>> \o withHead[i]]
                 \o Combinations(Tail(s), k)

\* Modifier::powerset
ModifierPowerset ==
    LET m == <<"Ctrl", "Alt", "AltGr", "Os", "Shift">>
    IN  Concat([k \in 1..(Len(m) + 1) |-> Combinations(m, k - 1)])

\* DualFunctionModifier::VALUES
DualFunctionValues ==
    <<"Ctrl", "Alt", "AltGr", "Os", "Shift", "Layer1", "Layer2", "Layer3",
      "Layer4", "Layer5", "Layer6", "Layer7", "Layer8">>

\* DualFunctionModifier::as_modifier_value
DualFunctionValue ==
    [Ctrl |-> 49169, Alt |-> 49681, AltGr |-> 50705, Os |-> 49937, Shift |-> 49425,
     Layer1 |-> 51218, Layer2 |-> 51474, Layer3 |-> 51730, Layer4 |-> 51986,
     Layer5 |-> 52242, Layer6 |-> 52498, Layer7 |-> 52754, Layer8 |-> 53010]

\* #[derive(Debug)] of DualFunctionModifier: the variant's identifier
DualFunctionDebug ==
    [Ctrl |-> <<67, 116, 114, 108>>, Alt |-> <<65, 108, 116>>,
     AltGr |-> <<65, 108, 116, 71, 114>>, Os |-> <<79, 115>>,
     Shift |-> <<83, 104, 105, 102, 116>>,
     Layer1 |-> <<76, 97, 121, 101, 114, 49>>, Layer2 |-> <<76, 97, 121, 101, 114, 50>>,
     Layer3 |-> <<76, 97, 121, 101, 114, 51>>, Layer4 |-> <<76, 97, 121, 101, 114, 52>>,
     Layer5 |-> <<76, 97, 121, 101, 114, 53>>, Layer6 |-> <<76, 97, 121, 101, 114, 54>>,
     Layer7 |-> <<76, 97, 121, 101, 114, 55>>, Layer8 |-> <<76, 97, 121, 101, 114, 56>>]

\* #[derive(Display)] of DualFunctionModifier: "Layer 1" .. "Layer 8" for the layers
DualFunctionText ==
    [m \in DOMAIN DualFunctionDebug |->
        LET d == DualFunctionDebug[m]
        IN  IF Len(d) = 6 THEN SubSeq(d, 1, 5) \o <<Space, d[6]>> ELSE d]

\* the sum of the modifier values of a modifier set
RECURSIVE ModifierSum(_)
ModifierSum(modifiers) ==
    IF modifiers = <<>> THEN 0
    ELSE ModifierValue[Head(modifiers)] + ModifierSum(Tail(modifiers))

\* the greatest element of a non-empty set of numbers
MaxOf(S) == CHOOSE m \in S : \A x \in S : x <= m

\* the code of each key of a table, None for a key whose code overflows
\* (`offset` as the loop over the keys updates it).  The running code is set
\* by a key with an explicit code and grows by one for each key without; a
\* key whose +1 overflows is skipped and leaves it at u16::MAX, so the code of
\* key i is the last explicit code at or before i (0 before the first key)
\* plus the number of keys since, when that fits in a u16.
BaseCodes(keys) ==
    [i \in 1..Len(keys) |->
        LET explicit == {j \in 1..i : keys[j].code # None}
            last == IF explicit = {} THEN 0 ELSE MaxOf(explicit)
            start == IF last = 0 THEN 0 ELSE keys[last].code[1]
        IN  IF start + (i - last) <= U16Max THEN Some(start + (i - last)) ELSE None]

\* A generated variant is identified by the declared key it derives from and
\* the modifier set or dual-function modifier applied to it; the generated
\* identifier is a function of exactly these.
VariantId(key, kind, with) == [base |-> key.name, kind |-> kind, with |-> with]

\* str::trim on ASCII text
Trim(s) ==
    LET inked == {i \in 1..Len(s) : s[i] # Space}
    IN  IF inked = {} THEN <<>>
        ELSE SubSeq(s, CHOOSE i \in inked : \A x \in inked : i <= x, MaxOf(inked))

\* the separators " + " and " / " of the derived display names
PlusSep == <<Space, 43, Space>>
SlashSep == <<Space, 47, Space>>

RECURSIVE JoinWith(_, _)
JoinWith(parts, sep) ==
    IF parts = <<>> THEN <<>>
    ELSE IF Len(parts) = 1 THEN parts[1]
    ELSE parts[1] \o sep \o JoinWith(Tail(parts), sep)

\* the display name of a declared key: its trimmed doc comment, else its name
BaseDisplayName(key) == IF key.doc # None THEN Trim(key.doc[1]) ELSE key.name

\* `modifiers` joined by " + "
ModifierPrefix(modifiers) ==
    JoinWith([i \in 1..Len(modifiers) |-> ModifierText[modifiers[i]]], PlusSep)

\* An association list read as a `match`: each pattern is bound to the value
\* of the first arm that has it (an earlier arm shadows a later one).
RECURSIVE MatchTable(_, _, _)
MatchTable(arms, lo, hi) ==
    IF lo > hi THEN <<>>
    ELSE IF lo = hi THEN (arms[lo].pat :> arms[lo].val)
    ELSE LET mid == (lo + hi) \div 2
         IN  MatchTable(arms, lo, mid) @@ MatchTable(arms, mid + 1, hi)

KeyKindOf(table, id) == [table |-> table.name, id |-> id]
Unknown(code) == [table |-> "Unknown", code |-> code]

(* impl_from_u16_for_key_kind.rs: the arms of `match code` in From<u16> *)

\* keys_from_modifiers: one arm per non-empty modifier set whose code fits
keys_from_modifiers(table, key, powerset, offset) ==
    Concat([j \in 1..Len(powerset) |->
        IF powerset[j] = <<>> THEN <<>>
        ELSE LET lit == checked_add(offset, ModifierSum(powerset[j]))
             IN  IF lit = None THEN <<>>
                 ELSE <<[pat |-> lit[1],
                         val |-> KeyKindOf(table, VariantId(key, "Modifiers", powerset[j]))]>>])

\* the dual-function arms of one key
dual_keys(table, key, offset) ==
    Concat([j \in 1..Len(DualFunctionValues) |->
        LET modifier == DualFunctionValues[j]
            lit == checked_add(offset, DualFunctionValue[modifier])
        IN  IF lit = None THEN <<>>
            ELSE <<[pat |-> lit[1],
                    val |-> KeyKindOf(table, VariantId(key, "Dual", <<modifier>>))]>>])

\* From<&ast::KeyTable> for KeyTable: the arms of one table, key by key
normalized_keys(table) ==
    LET codes == BaseCodes(table.keys)
    IN  Concat([i \in 1..Len(table.keys) |->
            IF codes[i] = None THEN <<>>
            ELSE LET key == table.keys[i]
                     offset == codes[i][1]
                 IN  <<[pat |-> offset, val |-> KeyKindOf(table, VariantId(key, "Key", <<>>))]>>
                     \o (IF table.with_modifiers
                         THEN keys_from_modifiers(table, key, ModifierPowerset, offset)
                         ELSE <<>>)
                     \o (IF table.with_dual_functions
                         THEN dual_keys(table, key, offset)
                         ELSE <<>>)])

\* all arms of `match code`, table after table
FromU16Arms == Concat([t \in 1..Len(KeyTables) |-> normalized_keys(KeyTables[t])])

FromU16Table == MatchTable(FromU16Arms, 1, Len(FromU16Arms))

\* impl From<u16> for KeyKind
KeyKindFromU16(c) ==
    IF c \in DOMAIN FromU16Table THEN FromU16Table[c] ELSE Unknown(c)

(* key_table_enum.rs: the variants of each table's #[repr(u16)] enum *)

\* Variant::new
VariantNew(key, offset) ==
    [id |-> VariantId(key, "Key", <<>>),
     code |-> IF key.code # None THEN key.code[1] ELSE offset,
     display_name |-> BaseDisplayName(key)]

\* Variant::new_with_modifiers (None when the code overflows)
new_with_modifiers(key, modifiers, offset) ==
    IF modifiers = <<>> THEN Some(VariantNew(key, offset))
    ELSE LET code == IF key.code # None THEN key.code[1] ELSE offset
             code_u16 == checked_add(code, ModifierSum(modifiers))
         IN  IF code_u16 = None THEN None
             ELSE Some([id |-> VariantId(key, "Modifiers", modifiers),
                        code |-> code_u16[1],
                        display_name |->
                            ModifierPrefix(modifiers) \o PlusSep \o BaseDisplayName(key)])

\* Variant::new_with_dual_functions (None when the code overflows)
new_with_dual_functions(key, modifier, offset) ==
    LET code == IF key.code # None THEN key.code[1] ELSE offset
        code_u16 == checked_add(code, DualFunctionValue[modifier])
    IN  IF code_u16 = None THEN None
        ELSE Some([id |-> VariantId(key, "Dual", <<modifier>>),
                   code |-> code_u16[1],
                   display_name |->
                       BaseDisplayName(key) \o SlashSep \o DualFunctionText[modifier]])

\* From<&ast::KeyTable> for KeyTableEnum: the running code restarts for each
\* modifier set and for each dual-function modifier
KeyTableEnum(table) ==
    LET codes == BaseCodes(table.keys)
        n == Len(table.keys)
        PerKey(F(_, _)) ==
            Concat([i \in 1..n |-> IF codes[i] = None THEN <<>> ELSE F(table.keys[i], codes[i][1])])
        Plain(key, offset) == <<VariantNew(key, offset)>>
        variants ==
            IF table.with_modifiers
            THEN Concat([j \in 1..Len(ModifierPowerset) |->
                    LET WithSet(key, offset) ==
                            new_with_modifiers(key, ModifierPowerset[j], offset)
                    IN  PerKey(WithSet)])
            ELSE PerKey(Plain)
        dual_variants ==
            IF table.with_dual_functions
            THEN Concat([j \in 1..Len(DualFunctionValues) |->
                    LET WithDual(key, offset) ==
                            new_with_dual_functions(key, DualFunctionValues[j], offset)
                    IN  PerKey(WithDual)])
            ELSE <<>>
    IN  variants \o dual_variants

\* every variant of every table enum, with its table
AllVariants ==
    Concat([t \in 1..Len(KeyTables) |->
        LET vs == KeyTableEnum(KeyTables[t])
        IN  [i \in 1..Len(vs) |->
                [key |-> KeyKindOf(KeyTables[t], vs[i].id),
                 code |-> vs[i].code,
                 display_name |-> vs[i].display_name]]])

\* the discriminant of each variant (`#name = #code`)
Discriminant ==
    MatchTable([i \in 1..Len(AllVariants) |->
                   [pat |-> AllVariants[i].key, val |-> AllVariants[i].code]],
               1, Len(AllVariants))

\* the #[display(...)] format string of each variant
DisplayFormat ==
    MatchTable([i \in 1..Len(AllVariants) |->
                   [pat |-> AllVariants[i].key, val |-> AllVariants[i].display_name]],
               1, Len(AllVariants))

\* From<KeyKind> for u16 with an Unknown key mapped to the NoKey code
U16FromKeyKind_UnknownAsNoKey(k) ==
    IF k.table = "Unknown" THEN 0 ELSE Discriminant[k]

\* impl From<KeyKind> for u16: `kind as u16` for a table key, the code of Unknown
U16FromKeyKind(k) ==
    IF k.table = "Unknown" THEN k.code ELSE Discriminant[k]

(* ir.rs: the keys handed to the FromStr generator *)

\* `modifiers` concatenated: the prefix of a generated identifier
RECURSIVE ModifierIdentPrefix(_)
ModifierIdentPrefix(modifiers) ==
    IF modifiers = <<>> THEN <<>>
    ELSE ModifierText[Head(modifiers)] \o ModifierIdentPrefix(Tail(modifiers))

DualWord == <<68, 117, 97, 108>>
AndWord == <<65, 110, 100>>

\* Key::new with KeyMeta::from_doc
IrKey(key) ==
    [id |-> VariantId(key, "Key", <<>>),
     name |-> key.name,
     display_name |-> BaseDisplayName(key)]

\* Key::with_modifiers with KeyMeta::with_modifiers
with_modifiers(key, code, modifiers) ==
    IF checked_add(code, ModifierSum(modifiers)) = None THEN <<>>
    ELSE <<[id |-> VariantId(key, "Modifiers", modifiers),
            name |-> ModifierIdentPrefix(modifiers) \o key.name,
            display_name |-> ModifierPrefix(modifiers) \o PlusSep \o BaseDisplayName(key)]>>

\* Key::with_dual_functions with KeyMeta::with_dual_functions
with_dual_functions(key, code, modifier) ==
    IF checked_add(code, DualFunctionValue[modifier]) = None THEN <<>>
    ELSE <<[id |-> VariantId(key, "Dual", <<modifier>>),
            name |-> DualWord \o key.name \o AndWord \o DualFunctionDebug[modifier],
            display_name |->
                BaseDisplayName(key) \o SlashSep \o DualFunctionText[modifier]]>>

\* From<ast::KeyTable> for ir::KeyTable, as the chain keys, keys_with_modifiers,
\* keys_with_dual_functions that the FromStr generator walks
IrKeys(table) ==
    LET codes == BaseCodes(table.keys)
        n == Len(table.keys)
        PerKey(F(_, _)) ==
            Concat([i \in 1..n |-> IF codes[i] = None THEN <<>> ELSE F(table.keys[i], codes[i][1])])
        Plain(key, code) == <<IrKey(key)>>
        create_keys_with_modifiers ==
            Concat([j \in 1..Len(ModifierPowerset) |->
                IF ModifierPowerset[j] = <<>> THEN <<>>
                ELSE LET WithSet(key, code) == with_modifiers(key, code, ModifierPowerset[j])
                     IN  PerKey(WithSet)])
        create_keys_with_dual_functions ==
            Concat([j \in 1..Len(DualFunctionValues) |->
                LET WithDual(key, code) == with_dual_functions(key, code, DualFunctionValues[j])
                IN  PerKey(WithDual)])
    IN  PerKey(Plain)
        \o (IF table.with_modifiers THEN create_keys_with_modifiers ELSE <<>>)
        \o (IF table.with_dual_functions THEN create_keys_with_dual_functions ELSE <<>>)

(* impl_from_str_for_key_table_enums.rs *)

\* char::to_ascii_lowercase
to_ascii_lowercase(c) == IF c >= 65 /\ c <= 90 THEN c + 32 ELSE c

Lowercase(s) == [i \in 1..Len(s) |-> to_ascii_lowercase(s[i])]

\* .chars().filter(|c| *c != ' ')
NotSpace(c) == c # Space
WithoutSpaces(s) == SelectSeq(s, NotSpace)

\* From<&ir::Key> for Variant: the matchers of one key
Matchers(k) ==
    LET display_name_matcher == Lowercase(WithoutSpaces(k.display_name))
        debug_name_matcher == Lowercase(k.name)
    IN  IF display_name_matcher = debug_name_matcher
        THEN <<debug_name_matcher>>
        ELSE <<display_name_matcher, debug_name_matcher>>

\* the arms of `match s.as_str()` in one table's from_str
FromStrArms(table) ==
    LET ks == IrKeys(table)
    IN  Concat([i \in 1..Len(ks) |->
            LET ms == Matchers(ks[i])
            IN  [j \in 1..Len(ms) |->
                    [pat |-> ms[j], val |-> KeyKindOf(table, ks[i].id)]]])

FromStrTables ==
    [t \in 1..Len(KeyTables) |->
        LET arms == FromStrArms(KeyTables[t]) IN MatchTable(arms, 1, Len(arms))]

FromStrError == [tag |-> "Err"]
OkKey(k) == [tag |-> "Ok", key |-> k]

\* the normalisation every table's from_str applies to its argument
NormalizeSymbol(s) == Lowercase(WithoutSpaces(Trim(s)))

\* impl FromStr for one table enum, on the normalised text
TableFromStr(t, n) ==
    IF n \in DOMAIN FromStrTables[t] THEN OkKey(FromStrTables[t][n]) ELSE FromStrError

\* impl FromStr for KeyKind: Err(FromStrError).or_else(table 1).or_else(table 2)...,
\* the result of the first table that parses the text
KeyKindFromStr(s) ==
    LET n == NormalizeSymbol(s)
        parsing == {t \in 1..Len(KeyTables) : n \in DOMAIN FromStrTables[t]}
    IN  IF parsing = {} THEN FromStrError
        ELSE TableFromStr(CHOOSE t \in parsing : \A x \in parsing : t <= x, n)

(* key_kind_enum.rs, key_table_enum.rs: Display *)

BraceOpen == 123
BraceClose == 125

\* a format string without arguments, rendered: "{{" is "{" and "}}" is "}".
\* Escapes pair up from the left, so in a run of equal braces every second one
\* is dropped.
RenderFormat(f) ==
    LET RunLength(i) == i - MaxOf({0} \cup {j \in 1..i : f[j] # f[i]})
        Kept(i) == ~(f[i] \in {BraceOpen, BraceClose} /\ RunLength(i) % 2 = 0)
        kept == SelectSeq([i \in 1..Len(f) |-> i], Kept)
    IN  [k \in 1..Len(kept) |-> f[kept[k]]]

Digit0 == 48

\* u16's Display: decimal digits
RECURSIVE ToDec(_)
ToDec(n) == IF n < 10 THEN <<Digit0 + n>> ELSE ToDec(n \div 10) \o <<Digit0 + (n % 10)>>

\* "<unknown " and ">"
UnknownPrefix == <<60, 117, 110, 107, 110, 111, 119, 110, 32>>
UnknownSuffix == <<62>>

\* impl Display for KeyKind (ToString::to_string)
KeyKindToString(k) ==
    IF k.table = "Unknown" THEN UnknownPrefix \o ToDec(k.code) \o UnknownSuffix
    ELSE RenderFormat(DisplayFormat[k])

----------------------------------------------------------------------------
(* Specifications of the key-code conversions.  SpecKeyCodes starts from a  *)
(* 16-bit code and decodes it; SpecKeySymbols starts from a key of a        *)
(* generated table.  Either then encodes the key, writes it as Serialize    *)
(* does and reads the text back as Deserialize does.                        *)

\* every variant of every generated table enum
EveryKey == {AllVariants[i].key : i \in 1..Len(AllVariants)}

InitKeyCodes ==
    /\ task = "key_codes"
    /\ code_in \in {Some(c) : c \in 0..U16Max}
    /\ key_kind = None /\ code_out = None /\ text = None /\ from_text = None
    /\ key_decoded = None
    /\ FramerIdle /\ RunIdle /\ KeymapIdle /\ SuperkeysIdle /\ MacrosIdle
    /\ ConnectionIdle

InitKeySymbols ==
    /\ task = "key_symbols"
    /\ code_in = None
    /\ key_kind \in {Some(k) : k \in EveryKey}
    /\ code_out = None /\ text = None /\ from_text = None
    /\ key_decoded = None
    /\ FramerIdle /\ RunIdle /\ KeymapIdle /\ SuperkeysIdle /\ MacrosIdle
    /\ ConnectionIdle

\* KeyKind::from(code)
Decode ==
    /\ task = "key_codes" /\ key_kind = None
    /\ key_kind' = Some(KeyKindFromU16(code_in[1]))
    /\ UNCHANGED <<task, exceptKeys, code_in, code_out, text, from_text, key_decoded>>

\* u16::from(key_kind)
Encode ==
    /\ task \in {"key_codes", "key_symbols"} /\ key_kind # None /\ code_out = None
    /\ code_out' = Some(U16FromKeyKind(key_kind[1]))
    /\ UNCHANGED <<task, exceptKeys, code_in, key_kind, text, from_text, key_decoded>>

\* impl Serialize for KeyKind: self.to_string()
Serialize ==
    /\ task \in {"key_codes", "key_symbols"} /\ key_kind # None /\ text = None
    /\ text' = Some(KeyKindToString(key_kind[1]))
    /\ UNCHANGED <<task, exceptKeys, code_in, key_kind, code_out, from_text, key_decoded>>

\* impl Deserialize for KeyKind: s.parse::<Self>()
Deserialize ==
    /\ task \in {"key_codes", "key_symbols"} /\ text # None /\ from_text = None
    /\ from_text' = Some(KeyKindFromStr(text[1]))
    /\ UNCHANGED <<task, exceptKeys, code_in, key_kind, code_out, text, key_decoded>>

\* KeyKind::from(u16::from(key_kind)): the code of a key decoded
DecodeEncoded ==
    /\ task = "key_symbols" /\ code_out # None /\ key_decoded = None
    /\ key_decoded' = Some(KeyKindFromU16(code_out[1]))
    /\ UNCHANGED <<task, exceptKeys, code_in, key_kind, code_out, text, from_text>>

NextKeyCodes == Decode \/ Encode \/ Serialize \/ Deserialize

NextKeySymbols == Encode \/ Serialize \/ Deserialize \/ DecodeEncoded

SpecKeyCodes == InitKeyCodes /\ [][NextKeyCodes]_vars

SpecKeySymbols == InitKeySymbols /\ [][NextKeySymbols]_vars

----------------------------------------------------------------------------
(* The Defy keymap (devices/defy.rs) *)

KEYS_PER_LAYER == 80
KEYMAP_CUSTOM_COMMAND_LAYERS == 10

\* LAYOUT: the offset of every physical key within the 80 codes of a layer
LAYOUT ==
    [left |->
        [row_1 |-> <<0, 1, 2, 3, 4, 5, 6>>,
         row_2 |-> <<16, 17, 18, 19, 20, 21, 22>>,
         row_3 |-> <<32, 33, 34, 35, 36, 37, 38>>,
         row_4 |-> <<48, 49, 50, 51, 52, 53>>,
         thumb_cluster |-> [top |-> <<64, 65, 66, 67>>, bottom |-> <<71, 70, 69, 68>>]],
     right |->
        [row_1 |-> <<9, 10, 11, 12, 13, 14, 15>>,
         row_2 |-> <<25, 26, 27, 28, 29, 30, 31>>,
         row_3 |-> <<41, 42, 43, 44, 45, 46, 47>>,
         row_4 |-> <<58, 59, 60, 61, 62, 63>>,
         thumb_cluster |-> [top |-> <<76, 77, 78, 79>>, bottom |-> <<75, 74, 73, 72>>]]]

\* layout_row.map(|index| layer_data[index as usize]).map(KeyKind::from)
KeysOfRow(layout_row, layer) ==
    [j \in 1..Len(layout_row) |-> KeyKindFromU16(layer[layout_row[j] + 1])]

\* From<&DefyLayerData> for DefyThumbclusterKeymapLeft and ...Right
DefyThumbclusterKeymapFrom(half_layout, layer) ==
    [top |-> KeysOfRow(half_layout.thumb_cluster.top, layer),
     bottom |-> KeysOfRow(half_layout.thumb_cluster.bottom, layer)]

\* From<&DefyLayerData> for DefyKeymapLeft and DefyKeymapRight
DefyKeymapHalfFrom(half_layout, layer) ==
    [row_1 |-> KeysOfRow(half_layout.row_1, layer),
     row_2 |-> KeysOfRow(half_layout.row_2, layer),
     row_3 |-> KeysOfRow(half_layout.row_3, layer),
     row_4 |-> KeysOfRow(half_layout.row_4, layer),
     thumb_cluster |-> DefyThumbclusterKeymapFrom(half_layout, layer)]

\* From<&DefyLayerData> for DefyKeymapLayer
DefyKeymapLayerFrom(layer) ==
    [layer_number |-> 0,
     left |-> DefyKeymapHalfFrom(LAYOUT.left, layer),
     right |-> DefyKeymapHalfFrom(LAYOUT.right, layer)]

\* the least element of a non-empty set of numbers
MinOf(S) == CHOOSE m \in S : \A x \in S : m <= x

\* .iter().copied().position(|key_index| key_index == index), counted from 1
Position(layout_row, index) ==
    LET found == {j \in 1..Len(layout_row) : layout_row[j] = index}
    IN  IF found = {} THEN None ELSE Some(MinOf(found))

\* the paths of get_index! without those of the thumb cluster
Paths_WithoutThumbCluster(half) ==
    <<half.row_1, half.row_2, half.row_3, half.row_4>>

\* the paths of one half in the order get_index! lists them
Paths(half) ==
    <<half.row_1, half.row_2, half.row_3, half.row_4,
      half.thumb_cluster.top, half.thumb_cluster.bottom>>

\* get_index!: None.or_else(row_1).or_else(row_2)..., the key at the position
\* of `index` in the first path that holds it
get_index(half_layout, half_keys, index) ==
    LET holding == {q \in 1..Len(Paths(half_layout)) :
                        Position(Paths(half_layout)[q], index) # None}
    IN  IF holding = {} THEN None
        ELSE LET q == MinOf(holding)
             IN  Some(Paths(half_keys)[q][Position(Paths(half_layout)[q], index)[1]])

\* get_key_by_index that takes the bottom thumb row to run in ascending offsets
get_key_by_index_BottomNotMirrored(layer, index) ==
    LET Straight(half) ==
            [half EXCEPT !.thumb_cluster.bottom = [j \in 1..Len(@) |-> @[Len(@) + 1 - j]]]
        left == get_index(Straight(LAYOUT.left), layer.left, index)
        right == get_index(Straight(LAYOUT.right), layer.right, index)
    IN  IF index >= KEYS_PER_LAYER THEN None
        ELSE IF left # None THEN left ELSE right

\* DefyKeymapLayer::get_key_by_index
get_key_by_index(layer, index) ==
    IF index >= KEYS_PER_LAYER THEN None
    ELSE LET left == get_index(LAYOUT.left, layer.left, index)
             right == get_index(LAYOUT.right, layer.right, index)
         IN  IF left # None THEN left ELSE right

\* DefyKeymapLayer::to_keymap_data: array::from_fn over the 80 offsets
to_keymap_data(layer) ==
    [i \in 1..KEYS_PER_LAYER |->
        LET k == get_key_by_index(layer, i - 1)
        IN  IF k = None THEN None ELSE Some(U16FromKeyKind(k[1]))]

KeymapDoesNotHave10LayersError == [tag |-> "KeymapDoesNotHave10LayersError"]

\* to_keymap_custom_data that rejects only keymaps with too many layers
to_keymap_custom_data_AtMost10(layers) ==
    IF Len(layers) > KEYMAP_CUSTOM_COMMAND_LAYERS THEN KeymapDoesNotHave10LayersError
    ELSE LET data == Concat([l \in 1..Len(layers) |-> to_keymap_data(layers[l])])
         IN  IF Len(data) = KEYS_PER_LAYER * KEYMAP_CUSTOM_COMMAND_LAYERS
             THEN [tag |-> "Ok", data |-> data]
             ELSE [tag |-> "Panic"]

\* DefyKeymap::to_keymap_custom_data; try_into().expect(..) panics unless the
\* collected data has 800 entries
to_keymap_custom_data(layers) ==
    IF Len(layers) # KEYMAP_CUSTOM_COMMAND_LAYERS THEN KeymapDoesNotHave10LayersError
    ELSE LET data == Concat([l \in 1..Len(layers) |-> to_keymap_data(layers[l])])
         IN  IF Len(data) = KEYS_PER_LAYER * KEYMAP_CUSTOM_COMMAND_LAYERS
             THEN [tag |-> "Ok", data |-> data]
             ELSE [tag |-> "Panic"]

----------------------------------------------------------------------------
(* Specification of the keymap conversions: flat layer data becomes a      *)
(* DefyKeymap, whose layers are converted back one by one (to_keymap_data)  *)
(* and all together (to_keymap_custom_data).                               *)

\* the largest number of layers of an explored keymap
MaxLayers == 11

\* a layer of 80 codes running from `start` in steps of `stride`
LayerData(start, stride) ==
    [i \in 1..KEYS_PER_LAYER |-> (start + (i - 1) * stride) % (U16Max + 1)]

\* n layers, each starting 80 codes after the one before
RawLayers(n, base, stride) ==
    [l \in 1..n |-> LayerData((base + (l - 1) * KEYS_PER_LAYER) % (U16Max + 1), stride)]

\* the first codes of the explored keymaps: ten layers of stride 1 from
\* these bases cover every 16-bit code between them
KeymapBases ==
    {c \in 0..U16Max : c % (KEYS_PER_LAYER * KEYMAP_CUSTOM_COMMAND_LAYERS) = 0}

KeymapStrides == {1, 81}

InitKeymap ==
    /\ task = "keymap"
    /\ raw_layers \in {RawLayers(n, base, stride) :
                        n \in 0..MaxLayers, base \in KeymapBases, stride \in KeymapStrides}
    /\ keymap = None /\ layers_out = None /\ custom_data = None
    /\ FramerIdle /\ RunIdle /\ KeysIdle /\ SuperkeysIdle /\ MacrosIdle
    /\ ConnectionIdle

\* DefyKeymap::from_str once the flat data is split into layers:
\* .iter().map(Into::into).collect()
KeymapFromLayers ==
    /\ task = "keymap" /\ keymap = None
    /\ keymap' = Some([l \in 1..Len(raw_layers) |-> DefyKeymapLayerFrom(raw_layers[l])])
    /\ UNCHANGED <<task, exceptKeymap, raw_layers, layers_out, custom_data>>

\* layer.to_keymap_data() for every layer of the keymap
ToKeymapData ==
    /\ task = "keymap" /\ keymap # None /\ layers_out = None
    /\ layers_out' = Some([l \in 1..Len(keymap[1]) |-> to_keymap_data(keymap[1][l])])
    /\ UNCHANGED <<task, exceptKeymap, raw_layers, keymap, custom_data>>

\* keymap.to_keymap_custom_data()
ToKeymapCustomData ==
    /\ task = "keymap" /\ keymap # None /\ custom_data = None
    /\ custom_data' = Some(to_keymap_custom_data(keymap[1]))
    /\ UNCHANGED <<task, exceptKeymap, raw_layers, keymap, layers_out>>

NextKeymap == KeymapFromLayers \/ ToKeymapData \/ ToKeymapCustomData

SpecKeymap == InitKeymap /\ [][NextKeymap]_vars

----------------------------------------------------------------------------
(* Superkeys: the parser of focus_api/parsing/superkeys.rs (winnow,         *)
(* complete input).  A parser applied at position p of the text s yields    *)
(* [ok, value, pos]: whether it matched, what it produced and the position  *)
(* after the matched text.                                                  *)

Tab == 9
Digit9 == 57

Backtrack == [ok |-> FALSE, value |-> None, pos |-> 0]
Parsed(v, p) == [ok |-> TRUE, value |-> v, pos |-> p]

IsDigit(c) == c \in Digit0..Digit9
IsSpace(c) == c \in {Space, Tab}

\* the length of the longest run of digits that starts at p
DigitRun(s, p) ==
    CHOOSE k \in 0..(Len(s) + 1 - p) :
        /\ p + k > Len(s) \/ ~IsDigit(s[p + k])
        /\ \A j \in 0..(k - 1) : IsDigit(s[p + j])

\* the length of the longest run of spaces and tabs that starts at p
SpaceRun(s, p) ==
    CHOOSE k \in 0..(Len(s) + 1 - p) :
        /\ p + k > Len(s) \/ ~IsSpace(s[p + k])
        /\ \A j \in 0..(k - 1) : IsSpace(s[p + j])

\* the value of a run of decimal digits
RECURSIVE FromDec(_)
FromDec(digits) ==
    IF digits = <<>> THEN 0
    ELSE 10 * FromDec(SubSeq(digits, 1, Len(digits) - 1)) + (digits[Len(digits)] - Digit0)

\* winnow::ascii::dec_uint::<_, u16, _>: a non-zero digit and the digits after
\* it, or a single 0; no match when the value does not fit 16 bits (six or
\* more digits never fit)
dec_uint(s, p) ==
    LET n == IF p <= Len(s) /\ s[p] = Digit0 THEN 1 ELSE DigitRun(s, p)
    IN  IF n = 0 \/ n > 5 THEN Backtrack
        ELSE LET v == FromDec(SubSeq(s, p, p + n - 1))
             IN  IF v > U16Max THEN Backtrack ELSE Parsed(v, p + n)

\* winnow::ascii::space1: one or more spaces or tabs
space1(s, p) ==
    LET n == SpaceRun(s, p)
    IN  IF n = 0 THEN Backtrack ELSE Parsed(None, p + n)

\* a literal used as a parser
literal(lit, s, p) ==
    IF p + Len(lit) - 1 <= Len(s) /\ SubSeq(s, p, p + Len(lit) - 1) = lit
    THEN Parsed(lit, p + Len(lit))
    ELSE Backtrack

\* "0 "
ZeroSpace == <<Digit0, Space>>

\* Blank::NoKey
BlankNoKey == KeyKindOf(KeyTables[1], VariantId(KeyTables[1].keys[1], "Key", <<>>))

\* superkey_action_parser that keeps Blank::NoKey as an action
superkey_action_parser_KeepsNoKey(s, p) ==
    LET Spaces(action, spaces) ==
            IF ~spaces.ok THEN Backtrack
            ELSE IF action = 1 THEN Parsed(None, spaces.pos)
            ELSE Parsed(Some(KeyKindFromU16(action)), spaces.pos)
        Number(number) ==
            IF ~number.ok THEN Backtrack
            ELSE Spaces(number.value, space1(s, number.pos))
    IN  Number(dec_uint(s, p))

\* superkey_action_parser: a number and the spaces after it; 1 and the
\* number of Blank::NoKey are no action
superkey_action_parser(s, p) ==
    LET KeyOrNone(key) == IF key = BlankNoKey THEN None ELSE Some(key)
        Spaces(action, spaces) ==
            IF ~spaces.ok THEN Backtrack
            ELSE IF action = 1 THEN Parsed(None, spaces.pos)
            ELSE Parsed(KeyOrNone(KeyKindFromU16(action)), spaces.pos)
        Number(number) ==
            IF ~number.ok THEN Backtrack
            ELSE Spaces(number.value, space1(s, number.pos))
    IN  Number(dec_uint(s, p))

\* a tuple of k superkey_action_parser, one after the other
RECURSIVE superkey_actions(_, _, _)
superkey_actions(s, p, k) ==
    LET Last(init, last) ==
            IF ~last.ok THEN Backtrack
            ELSE Parsed(Append(init.value, last.value), last.pos)
        Before(init) ==
            IF ~init.ok THEN Backtrack
            ELSE Last(init, superkey_action_parser(s, init.pos))
    IN  IF k = 0 THEN Parsed(<<>>, p) ELSE Before(superkey_actions(s, p, k - 1))

\* super_key_parser
super_key_parser(s, p) ==
    LET Superkey(actions) ==
            IF ~actions.ok THEN Backtrack
            ELSE Parsed([tap |-> actions.value[1],
                         hold |-> actions.value[2],
                         tap_hold |-> actions.value[3],
                         double_tap |-> actions.value[4],
                         double_tap_hold |-> actions.value[5]], actions.pos)
    IN  Superkey(superkey_actions(s, p, 5))

\* terminated(super_key_parser, "0 ")
terminated_super_key(s, p) ==
    LET Zero(superkey, zero) ==
            IF ~zero.ok THEN Backtrack ELSE Parsed(superkey.value, zero.pos)
        Superkey(superkey) ==
            IF ~superkey.ok THEN Backtrack
            ELSE Zero(superkey, literal(ZeroSpace, s, superkey.pos))
    IN  Superkey(super_key_parser(s, p))

\* repeat_till(1.., terminated(super_key_parser, "0 "), "0 "): the state of the
\* loop after the first, mandatory superkey
repeat_till_first(s, p) ==
    LET First(first) ==
            IF first.ok THEN [status |-> "more", acc |-> <<first.value>>, pos |-> first.pos]
            ELSE [status |-> "err", acc |-> <<>>, pos |-> p]
    IN  First(terminated_super_key(s, p))

\* one turn of the loop: the end literal is tried first, a superkey if it
\* does not match
repeat_till_turn(s, st) ==
    LET More(more) ==
            IF more.ok
            THEN [status |-> "more", acc |-> Append(st.acc, more.value), pos |-> more.pos]
            ELSE [status |-> "err", acc |-> st.acc, pos |-> st.pos]
        End(end) ==
            IF end.ok THEN [status |-> "done", acc |-> st.acc, pos |-> end.pos]
            ELSE More(terminated_super_key(s, st.pos))
    IN  End(literal(ZeroSpace, s, st.pos))

\* up to k turns of the loop from state st
RECURSIVE repeat_till_turns(_, _, _)
repeat_till_turns(s, st, k) ==
    IF st.status # "more" \/ k = 0 THEN st
    ELSE repeat_till_turns(s, repeat_till_turn(s, st), k - 1)

\* up to n times sixteen turns of the loop from state st
RECURSIVE repeat_till_blocks(_, _, _)
repeat_till_blocks(s, st, n) ==
    IF st.status # "more" \/ n = 0 THEN st
    ELSE repeat_till_blocks(s, repeat_till_turns(s, st, 16), n - 1)

\* super_keys_parser: the loop (every turn consumes text, so Len(s) turns end
\* it), then `rest`, which takes what is left
super_keys_parser(s) ==
    LET Rest(loop) ==
            IF loop.status = "done" THEN Parsed(loop.acc, Len(s) + 1) ELSE Backtrack
    IN  Rest(repeat_till_blocks(s, repeat_till_first(s, 1), (Len(s) \div 16) + 1))

ParseSuperkeyMapError == [tag |-> "Err", error |-> "ParseSuperkeyMapError"]

\* FromStr for the parser's SuperkeyMap: super_keys_parser.parse(s), which
\* also requires that the whole text is consumed
RawSuperkeyMapFromStr(s) ==
    LET Complete(map) ==
            IF map.ok /\ map.pos = Len(s) + 1 THEN [tag |-> "Ok", map |-> map.value]
            ELSE ParseSuperkeyMapError
    IN  Complete(super_keys_parser(s))

(* Superkeys of the Defy (devices/defy.rs) *)

\* the size of the superkey memory: [u16; 512]
SUPERKEY_MAP_SIZE == 512

\* "65535 ", the text of a slot that was never written
FillSentinel == ToDec(U16Max) \o <<Space>>

\* repeat(.., "65535 ") of parsing/superkeys.rs: the position after the
\* longest run of the literal that starts at p
fill_sentinels(s, p) ==
    LET n == Len(FillSentinel)
        At(i) == literal(FillSentinel, s, p + n * i).ok
    IN  p + n * (CHOOSE k \in 0..(Len(s) \div n) :
                    ~At(k) /\ \A i \in 0..(k - 1) : At(i))

\* super_keys_parser of parsing/superkeys.rs: the same loop, then
\* repeat(.., "65535 ") in the place of `rest`
parsing_super_keys_parser(s) ==
    LET Fill(loop) ==
            IF loop.status = "done" THEN Parsed(loop.acc, fill_sentinels(s, loop.pos))
            ELSE Backtrack
    IN  Fill(repeat_till_blocks(s, repeat_till_first(s, 1), (Len(s) \div 16) + 1))

\* FromStr for the SuperkeyMap of parsing/superkeys.rs:
\* super_keys_parser.parse(s), which also requires that the whole text is
\* consumed
ParsingSuperkeyMapFromStr(s) ==
    LET Complete(map) ==
            IF map.ok /\ map.pos = Len(s) + 1 THEN [tag |-> "Ok", map |-> map.value]
            ELSE ParseSuperkeyMapError
    IN  Complete(parsing_super_keys_parser(s))

\* `i as u8 + 1` for the superkey at position i (from 0): `as u8` keeps the
\* low eight bits; the sum of 255 and 1 does not fit a u8 and is 0 in a
\* build without overflow checks (a build with them panics, see
\* SuperkeyMapFromStr)
macro_number_of(i) == (((i % 256) + 1) % 256)

\* FromStr for SuperkeyMap: the parsed superkeys, numbered from 1
\* (`i as u8 + 1`). In a build with overflow checks the addition panics at
\* the first position whose low eight bits are 255.
SuperkeyMapFromStr(s, overflow_checks) ==
    LET Numbered(raw) ==
            IF raw.tag # "Ok" THEN raw
            ELSE IF overflow_checks /\ Len(raw.map) > U8Max THEN [tag |-> "Panic"]
            ELSE [tag |-> "Ok",
                  map |-> [i \in 1..Len(raw.map) |->
                              [macro_number |-> macro_number_of(i - 1),
                               tap |-> raw.map[i].tap,
                               hold |-> raw.map[i].hold,
                               tap_hold |-> raw.map[i].tap_hold,
                               double_tap |-> raw.map[i].double_tap,
                               double_tap_hold |-> raw.map[i].double_tap_hold]]]
    IN  Numbered(RawSuperkeyMapFromStr(s))

\* action_to_u16 with an unset action written as the NoKey code
action_to_u16_NoneAsNoKey(key) ==
    IF key = None THEN 0
    ELSE IF key[1] = BlankNoKey THEN 0
    ELSE U16FromKeyKind(key[1])

\* the closure action_to_u16 of Superkey::to_superkey_map_data
action_to_u16(key) ==
    IF key = None THEN 1
    ELSE IF key[1] = BlankNoKey THEN 1
    ELSE U16FromKeyKind(key[1])

\* Superkey::to_superkey_map_data
SuperkeyData(key) ==
    LET actions == <<key.tap, key.hold, key.tap_hold, key.double_tap, key.double_tap_hold>>
    IN  [i \in 1..6 |-> IF i = 6 THEN 0 ELSE action_to_u16(actions[i])]

TooManySuperkeysError == [tag |-> "Err", error |-> "TooManySuperkeysError"]

\* to_superkey_map_data that cuts the data to the size of the memory
to_superkey_map_data_Truncating(map) ==
    LET Filled(data) ==
            [tag |-> "Ok",
             data |-> [i \in 1..SUPERKEY_MAP_SIZE |->
                          IF i <= Len(data) THEN data[i] ELSE U16Max]]
    IN  Filled(Append(Concat([i \in 1..Len(map) |-> SuperkeyData(map[i])]), 0))

\* SuperkeyMap::to_superkey_map_data: the data of every superkey, a final 0,
\* then the fill value up to the size of the memory
to_superkey_map_data(map) ==
    LET Filled(data) ==
            IF Len(data) > SUPERKEY_MAP_SIZE THEN TooManySuperkeysError
            ELSE [tag |-> "Ok",
                  data |-> [i \in 1..SUPERKEY_MAP_SIZE |->
                               IF i <= Len(data) THEN data[i] ELSE U16Max]]
    IN  Filled(Append(Concat([i \in 1..Len(map) |-> SuperkeyData(map[i])]), 0))

\* itertools' join(" ") of the data
JoinBySpace(data) ==
    Concat([i \in 1..Len(data) |->
               IF i = 1 THEN ToDec(data[i]) ELSE <<Space>> \o ToDec(data[i])])

\* the closure action_to_u16 of the parser's Superkey::to_command_data
command_action_to_u16(key) ==
    IF key = None THEN 1
    ELSE IF key[1] = BlankNoKey THEN 1
    ELSE U16FromKeyKind(key[1])

\* Superkey::to_command_data of the parser's Superkey
SuperkeyCommandData(key) ==
    LET actions == <<key.tap, key.hold, key.tap_hold, key.double_tap, key.double_tap_hold>>
    IN  [i \in 1..6 |-> IF i = 6 THEN 0 ELSE command_action_to_u16(actions[i])]

\* SuperkeyMap::to_command_data::<MEMORY_SIZE> of the parser's SuperkeyMap: the
\* fill value alone for the empty map; else the data of every superkey and a
\* final 0, written over the fill value
to_command_data(map, MEMORY_SIZE) ==
    LET Zipped(superkeys) ==
            IF Len(superkeys) > MEMORY_SIZE THEN TooManySuperkeysError
            ELSE [tag |-> "Ok",
                  text |-> JoinBySpace([i \in 1..MEMORY_SIZE |->
                               IF i <= Len(superkeys) THEN superkeys[i] ELSE U16Max])]
    IN  IF Len(map) = 0
        THEN [tag |-> "Ok", text |-> JoinBySpace([i \in 1..MEMORY_SIZE |-> U16Max])]
        ELSE Zipped(Append(Concat([i \in 1..Len(map) |-> SuperkeyCommandData(map[i])]), 0))

\* the wire block of `slots`: every value in decimal, followed by a space
\* (the form of SUPERKEY_DATA)
WireBlock(slots) == Concat([i \in 1..Len(slots) |-> ToDec(slots[i]) \o <<Space>>])

----------------------------------------------------------------------------
(* Specification of the superkey conversions: a wire block of               *)
(* SUPERKEY_MAP_SIZE values is parsed into a SuperkeyMap, the map is        *)
(* converted to data, and the data is written as text.                      *)

\* the largest number of superkeys of a chosen block
MaxSuperkeys == 85

\* the numbers of superkeys that fit the memory together with the final 0
SuperkeyCounts == {n \in 1..MaxSuperkeys : 6 * n + 1 <= SUPERKEY_MAP_SIZE}

\* the actions of a superkey of a chosen block: those of the first superkey
\* of SUPERKEY_DATA; the NoKey code as the first action; the NoKey code, a
\* code of no table and the fill value as later actions
SuperkeyActions ==
    {<<262, 281, 1, 1, 1>>, <<0, 4, 5, 6, 7>>, <<44, 0, 2, 1, U16Max>>}

\* the values of the slots after the superkeys and the final 0
SuperkeyFill == {U16Max, 44}

\* the value that follows the actions of the last superkey: 0 in a block
\* that parses
SuperkeyEnds == {0, 1}

\* the block of n superkeys: the first with the actions `first`, the others
\* with the actions `others`
SuperkeyBlock(n, first, others, end, fill) ==
    [i \in 1..SUPERKEY_MAP_SIZE |->
        LET k == ((i - 1) \div 6) + 1
            j == ((i - 1) % 6) + 1
        IN  IF i > 6 * n + 1 THEN fill
            ELSE IF i = 6 * n + 1 THEN 0
            ELSE IF j = 6 THEN (IF k = n THEN end ELSE 0)
            ELSE IF k = 1 THEN first[j] ELSE others[j]]

\* the specifications that convert a SuperkeyMap to data
SuperkeyTasks == {"superkeys", "superkey_maps"}

\* the specifications that parse a text into a SuperkeyMap
SuperkeyParses == {"superkeys", "superkey_texts", "superkey_padding"}

InitSuperkeys ==
    /\ task = "superkeys"
    /\ superkey_slots \in {SuperkeyBlock(n, first, others, end, fill) :
                            n \in SuperkeyCounts, first \in SuperkeyActions,
                            others \in SuperkeyActions, end \in SuperkeyEnds,
                            fill \in SuperkeyFill}
    /\ superkey_block = WireBlock(superkey_slots)
    /\ superkey_map = None /\ superkey_data = None /\ superkey_str = None
    /\ superkey_again = None /\ command_data = None
    /\ FramerIdle /\ RunIdle /\ KeysIdle /\ KeymapIdle /\ MacrosIdle
    /\ ConnectionIdle

\* SUPERKEY_DATA.parse::<SuperkeyMap>()
ParseSuperkeyMap ==
    /\ task \in SuperkeyParses /\ superkey_map = None
    /\ \E overflow_checks \in BOOLEAN :
           superkey_map' = Some(SuperkeyMapFromStr(superkey_block, overflow_checks))
    /\ UNCHANGED <<task, superkey_slots, superkey_block, superkey_data, superkey_str,
                   superkey_again, command_data>>
    /\ UNCHANGED exceptSuperkeys

\* map.to_superkey_map_data()
ToSuperkeyMapData ==
    /\ task \in SuperkeyTasks /\ superkey_map # None /\ superkey_data = None
    /\ superkey_map[1].tag = "Ok"
    /\ superkey_data' = Some(to_superkey_map_data(superkey_map[1].map))
    /\ UNCHANGED <<task, superkey_slots, superkey_block, superkey_map, superkey_str,
                   superkey_again, command_data>>
    /\ UNCHANGED exceptSuperkeys

\* format!("{str_data} ") of the data joined by spaces
FormatSuperkeyData ==
    /\ task \in SuperkeyTasks /\ superkey_data # None /\ superkey_str = None
    /\ superkey_data[1].tag = "Ok"
    /\ superkey_str' = Some(JoinBySpace(superkey_data[1].data) \o <<Space>>)
    /\ UNCHANGED <<task, superkey_slots, superkey_block, superkey_map, superkey_data,
                   superkey_again, command_data>>
    /\ UNCHANGED exceptSuperkeys

\* the parser's SuperkeyMap of the same superkeys
RawSuperkeyMap(map) ==
    [i \in 1..Len(map) |->
        [tap |-> map[i].tap, hold |-> map[i].hold, tap_hold |-> map[i].tap_hold,
         double_tap |-> map[i].double_tap, double_tap_hold |-> map[i].double_tap_hold]]

\* to_command_data::<512>() of the parser's SuperkeyMap
ToCommandData ==
    /\ task \in SuperkeyTasks /\ superkey_map # None /\ command_data = None
    /\ superkey_map[1].tag = "Ok"
    /\ command_data' =
           Some(to_command_data(RawSuperkeyMap(superkey_map[1].map), SUPERKEY_MAP_SIZE))
    /\ UNCHANGED <<task, superkey_slots, superkey_block, superkey_map, superkey_data,
                   superkey_str, superkey_again>>
    /\ UNCHANGED exceptSuperkeys

\* the written text handed to parse::<SuperkeyMap>() in its turn: it is the
\* block of a second round of the same conversions, and is kept to compare
\* the text of that round with
ParseWritten ==
    /\ task = "superkeys" /\ superkey_str # None /\ superkey_again = None
    /\ superkey_again' = superkey_str
    /\ superkey_block' = superkey_str[1]
    /\ superkey_map' = None /\ superkey_data' = None /\ superkey_str' = None
    /\ command_data' = None
    /\ UNCHANGED <<task, superkey_slots>>
    /\ UNCHANGED exceptSuperkeys

NextSuperkeys ==
    \/ ParseSuperkeyMap \/ ToSuperkeyMapData \/ FormatSuperkeyData
    \/ ToCommandData \/ ParseWritten

SpecSuperkeys == InitSuperkeys /\ [][NextSuperkeys]_vars

(* Specification of the parse of long texts: a text of more superkeys than  *)
(* the memory holds, up to more than a u8 counts, is parsed into a          *)
(* SuperkeyMap.                                                             *)

\* the largest number of superkeys of a chosen text
MaxTextSuperkeys == 257

\* the numbers of superkeys of the chosen texts: around u8::MAX
TextSuperkeyCounts == (U8Max - 2)..MaxTextSuperkeys

\* the values of a text of n superkeys and the final 0
SuperkeyValues(n, first, others, end) ==
    [i \in 1..(6 * n + 1) |->
        LET k == ((i - 1) \div 6) + 1
            j == ((i - 1) % 6) + 1
        IN  IF i = 6 * n + 1 THEN 0
            ELSE IF j = 6 THEN (IF k = n THEN end ELSE 0)
            ELSE IF k = 1 THEN first[j] ELSE others[j]]

InitSuperkeyTexts ==
    /\ task = "superkey_texts"
    /\ superkey_slots \in {SuperkeyValues(n, first, others, end) :
                            n \in TextSuperkeyCounts, first \in SuperkeyActions,
                            others \in SuperkeyActions, end \in SuperkeyEnds}
    /\ superkey_block = WireBlock(superkey_slots)
    /\ superkey_map = None /\ superkey_data = None /\ superkey_str = None
    /\ superkey_again = None /\ command_data = None
    /\ FramerIdle /\ RunIdle /\ KeysIdle /\ KeymapIdle /\ MacrosIdle
    /\ ConnectionIdle

NextSuperkeyTexts == ParseSuperkeyMap

SpecSuperkeyTexts == InitSuperkeyTexts /\ [][NextSuperkeyTexts]_vars

(* Specification of the parse of padded texts: a text of superkeys and the  *)
(* final 0, followed by chosen values, is parsed by the parser of either    *)
(* module.                                                                  *)

\* the largest number of superkeys of a padded text
MaxPaddedSuperkeys == 2

\* the largest number of values after the final 0
MaxPadding == 3

\* the values that follow the final 0: the fill value, the codes that end a
\* superkey and a map, the code of no action and a key code
PaddingValues == {U16Max, 0, 1, 44}

InitSuperkeyPadding ==
    /\ task = "superkey_padding"
    /\ superkey_slots \in {SuperkeyValues(n, first, others, 0) \o padding :
                            n \in 1..MaxPaddedSuperkeys, first \in SuperkeyActions,
                            others \in SuperkeyActions,
                            padding \in SeqsUpTo(PaddingValues, MaxPadding)}
    /\ superkey_block = WireBlock(superkey_slots)
    /\ superkey_map = None /\ superkey_data = None /\ superkey_str = None
    /\ superkey_again = None /\ command_data = None
    /\ FramerIdle /\ RunIdle /\ KeysIdle /\ KeymapIdle /\ MacrosIdle
    /\ ConnectionIdle

\* SUPERKEY_DATA.parse::<SuperkeyMap>() of parsing/superkeys.rs
ParseParsingSuperkeyMap ==
    /\ task = "superkey_padding" /\ superkey_map = None
    /\ superkey_map' = Some(ParsingSuperkeyMapFromStr(superkey_block))
    /\ UNCHANGED <<task, superkey_slots, superkey_block, superkey_data, superkey_str,
                   superkey_again, command_data>>
    /\ UNCHANGED exceptSuperkeys

NextSuperkeyPadding == ParseSuperkeyMap \/ ParseParsingSuperkeyMap

SpecSuperkeyPadding == InitSuperkeyPadding /\ [][NextSuperkeyPadding]_vars

(* Specification of the conversion of constructed maps: a SuperkeyMap of    *)
(* chosen superkeys, also of none and of more than fit the memory, is       *)
(* converted to data by either conversion.                                  *)

\* the largest number of superkeys of a constructed map
MaxMapLen == 87

\* the superkeys of a constructed map: the first superkey of SUPERKEY_DATA;
\* one of no action; one holding Blank::NoKey, a key of no table and
\* Blank::Transparent
SuperkeyChoices ==
    {[macro_number |-> 0, tap |-> Some(KeyKindFromU16(262)),
      hold |-> Some(KeyKindFromU16(281)), tap_hold |-> None,
      double_tap |-> None, double_tap_hold |-> None],
     [macro_number |-> 0, tap |-> None, hold |-> None, tap_hold |-> None,
      double_tap |-> None, double_tap_hold |-> None],
     [macro_number |-> 0, tap |-> Some(BlankNoKey), hold |-> Some(Unknown(2)),
      tap_hold |-> Some(KeyKindFromU16(U16Max)), double_tap |-> Some(KeyKindFromU16(4)),
      double_tap_hold |-> None]}

InitSuperkeyMaps ==
    /\ task = "superkey_maps"
    /\ superkey_slots = None /\ superkey_block = None
    /\ superkey_map \in {Some([tag |-> "Ok",
                                map |-> [i \in 1..n |-> IF i = 1 THEN first ELSE others]]) :
                             n \in 0..MaxMapLen, first \in SuperkeyChoices,
                             others \in SuperkeyChoices}
    /\ superkey_data = None /\ superkey_str = None
    /\ superkey_again = None /\ command_data = None
    /\ FramerIdle /\ RunIdle /\ KeysIdle /\ KeymapIdle /\ MacrosIdle
    /\ ConnectionIdle

NextSuperkeyMaps == ToSuperkeyMapData \/ FormatSuperkeyData \/ ToCommandData

SpecSuperkeyMaps == InitSuperkeyMaps /\ [][NextSuperkeyMaps]_vars

(* Specification of the round trip of constructed maps: the text written   *)
(* for a map, with the trailing space of SUPERKEY_DATA, is parsed back.     *)

\* the conversions that write a map as text
Writers == {"to_superkey_map_data", "to_command_data"}

\* the text a conversion has written for the map, followed by a space; None
\* while there is none
WrittenBy(writer) ==
    IF writer = "to_superkey_map_data" THEN superkey_str
    ELSE IF command_data # None /\ command_data[1].tag = "Ok"
         THEN Some(command_data[1].text \o <<Space>>)
    ELSE None

\* format!("{str_data} ").parse::<SuperkeyMap>() of the text written by one
\* of the conversions
ParseBack ==
    /\ task = "superkey_maps" /\ superkey_again = None
    /\ \E writer \in Writers, overflow_checks \in BOOLEAN :
        \E str \in {WrittenBy(writer)} :
            /\ str # None
            /\ superkey_again' =
                   Some([writer |-> writer,
                         parsed |-> SuperkeyMapFromStr(str[1], overflow_checks)])
    /\ UNCHANGED <<task, superkey_slots, superkey_block, superkey_map, superkey_data,
                   superkey_str, command_data>>
    /\ UNCHANGED exceptSuperkeys

NextSuperkeyRoundTrip == NextSuperkeyMaps \/ ParseBack

SpecSuperkeyRoundTrip == InitSuperkeyMaps /\ [][NextSuperkeyRoundTrip]_vars

(* Specification of the commands that write to the keyboard: a keymap or a *)
(* superkey map is converted to command data, and the command is handed to *)
(* run_command only if the conversion succeeds.                            *)

KEYMAP_CUSTOM_COMMAND_NAME == "keymap.custom"
SUPERKEY_MAP_COMMAND_NAME == "superkeys.map"

\* Option::unwrap_or_default of a key of the keymap data
unwrap_or_default(key) == IF key = None THEN 0 ELSE key[1]

\* .into_iter().map(|key| key.unwrap_or_default()) of the keymap data
KeymapCodes(data) == Concat([i \in 1..Len(data) |-> <<unwrap_or_default(data[i])>>])

\* a call of apply_custom_keymap or apply_superkeys has not been made yet
NotApplied == written = <<>> /\ returned = <<>>

\* Superkey::default(): a superkey of no action
DefaultSuperkey ==
    [macro_number |-> 0, tap |-> None, hold |-> None, tap_hold |-> None,
     double_tap |-> None, double_tap_hold |-> None]

\* the maps handed to apply_superkeys: up to MaxMapLen superkeys of no action
InitAppliedSuperkeys ==
    /\ task = "superkey_maps"
    /\ superkey_slots = None /\ superkey_block = None
    /\ superkey_map \in {Some([tag |-> "Ok", map |-> [i \in 1..n |-> DefaultSuperkey]]) :
                             n \in 0..MaxMapLen}
    /\ superkey_data = None /\ superkey_str = None
    /\ superkey_again = None /\ command_data = None
    /\ FramerIdle /\ RunIdle /\ KeysIdle /\ KeymapIdle /\ MacrosIdle
    /\ ConnectionIdle

InitApply == InitKeymap \/ InitAppliedSuperkeys

\* apply_custom_keymap(keymap) up to the write of run_command: the `?` after
\* to_keymap_custom_data() returns the error before run_command is called;
\* `written` takes the arguments of run_command
ApplyCustomKeymap ==
    /\ task = "keymap" /\ keymap # None /\ NotApplied
    /\ \E data \in {to_keymap_custom_data(keymap[1])} :
           IF data.tag = "Ok"
           THEN /\ \E codes \in {KeymapCodes(data.data)} :
                       written' = <<[command |-> KEYMAP_CUSTOM_COMMAND_NAME,
                                     data |-> Some(JoinBySpace(codes))]>>
                /\ UNCHANGED returned
           ELSE returned' = <<data>> /\ UNCHANGED written
    /\ UNCHANGED <<task, framerVars, runVars, keyVars, keymapVars, superkeyVars,
                   macroVars, answers, wire>>

\* apply_superkeys with a slip: the command is written before the outcome
\* of the conversion is looked at
ApplySuperkeys_WritesFirst ==
    /\ task = "superkey_maps" /\ superkey_map # None /\ NotApplied
    /\ \E data \in {to_superkey_map_data(superkey_map[1].map)} :
           /\ written' =
                  <<[command |-> SUPERKEY_MAP_COMMAND_NAME,
                     data |-> Some(IF data.tag = "Ok" THEN JoinBySpace(data.data)
                                   ELSE <<>>)]>>
           /\ returned' = IF data.tag = "Ok" THEN returned ELSE <<data>>
    /\ UNCHANGED <<task, framerVars, runVars, keyVars, keymapVars, superkeyVars,
                   macroVars, answers, wire>>

\* apply_superkeys(superkeys) up to the write of run_command: the `?` after
\* to_superkey_map_data() returns the error before run_command is called
ApplySuperkeys ==
    /\ task = "superkey_maps" /\ superkey_map # None /\ NotApplied
    /\ \E data \in {to_superkey_map_data(superkey_map[1].map)} :
           IF data.tag = "Ok"
           THEN /\ written' = <<[command |-> SUPERKEY_MAP_COMMAND_NAME,
                                  data |-> Some(JoinBySpace(data.data))]>>
                /\ UNCHANGED returned
           ELSE returned' = <<data>> /\ UNCHANGED written
    /\ UNCHANGED <<task, framerVars, runVars, keyVars, keymapVars, superkeyVars,
                   macroVars, answers, wire>>

NextApply == KeymapFromLayers \/ ApplyCustomKeymap \/ ApplySuperkeys

SpecApply == InitApply /\ [][NextApply]_vars

----------------------------------------------------------------------------
(* Macros: the parser of focus_api/parsing/macros.rs (winnow, complete      *)
(* input)                                                                   *)

\* winnow::ascii::dec_uint::<_, u8, _>: as dec_uint, for a value of 8 bits
dec_uint_u8(s, p) ==
    LET Value(n) ==
            IF n = 0 \/ n > 3 THEN Backtrack
            ELSE IF FromDec(SubSeq(s, p, p + n - 1)) > U8Max THEN Backtrack
            ELSE Parsed(FromDec(SubSeq(s, p, p + n - 1)), p + n)
    IN  Value(IF p <= Len(s) /\ s[p] = Digit0 THEN 1 ELSE DigitRun(s, p))

\* u8_parser: (dec_uint, " ")
u8_parser(s, p) ==
    LET Sep(number, space) ==
            IF ~space.ok THEN Backtrack ELSE Parsed(number.value, space.pos)
        Number(number) ==
            IF ~number.ok THEN Backtrack
            ELSE Sep(number, literal(<<Space>>, s, number.pos))
    IN  Number(dec_uint_u8(s, p))

\* u16::from_ne_bytes([first, second]) on the target at hand
from_ne_bytes(first, second) ==
    IF target_endian = "little" THEN first + 256 * second ELSE 256 * first + second

\* u16_parser: (u8_parser, u8_parser)
u16_parser(s, p) ==
    LET Low(high_byte, low_byte) ==
            IF ~low_byte.ok THEN Backtrack
            ELSE Parsed(from_ne_bytes(high_byte.value, low_byte.value), low_byte.pos)
        High(high_byte) ==
            IF ~high_byte.ok THEN Backtrack ELSE Low(high_byte, u8_parser(s, high_byte.pos))
    IN  High(u8_parser(s, p))

\* action_data_one_u16_parser
action_data_one_u16_parser(s, p) ==
    LET Data(data) ==
            IF ~data.ok THEN Backtrack
            ELSE Parsed([tag |-> "OneU16", data |-> <<data.value>>], data.pos)
    IN  Data(u16_parser(s, p))

\* action_data_two_u16s_parser that reads one u16 and gives it twice
action_data_two_u16s_parser_ReadsOne(s, p) ==
    LET First(data_1) ==
            IF ~data_1.ok THEN Backtrack
            ELSE Parsed([tag |-> "TwoU16", data |-> <<data_1.value, data_1.value>>],
                        data_1.pos)
    IN  First(u16_parser(s, p))

\* action_data_two_u16s_parser
action_data_two_u16s_parser(s, p) ==
    LET Second(data_1, data_2) ==
            IF ~data_2.ok THEN Backtrack
            ELSE Parsed([tag |-> "TwoU16", data |-> <<data_1.value, data_2.value>>],
                        data_2.pos)
        First(data_1) ==
            IF ~data_1.ok THEN Backtrack ELSE Second(data_1, u16_parser(s, data_1.pos))
    IN  First(u16_parser(s, p))

\* the names of the actions of the kinds 6, 7 and 8
KeyActionOfKind == (6 :> "KeyDown") @@ (7 :> "KeyUp") @@ (8 :> "Press")

\* the `match kind` in which a kind that is none of 1..8 reads one byte of
\* data as a key press does, instead of failing
action_of_kind_DefaultsToPress(s, p, kind) ==
    LET Unknown_(data) ==
            IF ~data.ok THEN Backtrack
            ELSE Parsed([action |-> "Unknown", kind |-> kind, data |-> data.value], data.pos)
        Key(action, data) ==
            IF ~data.ok THEN Backtrack
            ELSE Parsed([action |-> action, key |-> KeyKindFromU16(data.value)], data.pos)
    IN  IF kind = 1 THEN Unknown_(action_data_two_u16s_parser(s, p))
        ELSE IF kind \in 2..5 THEN Unknown_(action_data_one_u16_parser(s, p))
        ELSE IF kind \in 6..8 THEN Key(KeyActionOfKind[kind], u8_parser(s, p))
        ELSE Key("Press", u8_parser(s, p))

\* the `match kind` of action_parser: the data of the action, read at p
action_of_kind(s, p, kind) ==
    LET Unknown_(data) ==
            IF ~data.ok THEN Backtrack
            ELSE Parsed([action |-> "Unknown", kind |-> kind, data |-> data.value], data.pos)
        Key(data) ==
            IF ~data.ok THEN Backtrack
            ELSE Parsed([action |-> KeyActionOfKind[kind],
                         key |-> KeyKindFromU16(data.value)], data.pos)
    IN  IF kind = 1 THEN Unknown_(action_data_two_u16s_parser(s, p))
        ELSE IF kind \in 2..5 THEN Unknown_(action_data_one_u16_parser(s, p))
        ELSE IF kind \in 6..8 THEN Key(u8_parser(s, p))
        ELSE Backtrack

\* action_parser that takes the first byte it reads as the kind
action_parser_NoSkip(s, p) ==
    LET Kind(kind) ==
            IF ~kind.ok THEN Backtrack ELSE action_of_kind(s, kind.pos, kind.value)
    IN  Kind(u8_parser(s, p))

\* action_parser: a kind that is not one of 1..8 is skipped and the next
\* byte is the kind
action_parser(s, p) ==
    LET Dispatch(kind) ==
            IF ~kind.ok THEN Backtrack ELSE action_of_kind(s, kind.pos, kind.value)
        Kind(kind) ==
            IF ~kind.ok THEN Backtrack
            ELSE IF kind.value \notin 1..8 THEN u8_parser(s, kind.pos)
            ELSE kind
    IN  Dispatch(Kind(u8_parser(s, p)))

\* repeat_till(.., action_parser, "0 "): the end literal is tried before the
\* first action too
RECURSIVE macro_actions_FromNone(_, _, _)
macro_actions_FromNone(s, p, acc) ==
    LET More(action) ==
            IF ~action.ok THEN Backtrack
            ELSE macro_actions_FromNone(s, action.pos, Append(acc, action.value))
        End(end) ==
            IF end.ok THEN Parsed(acc, end.pos)
            ELSE More(action_parser(s, p))
    IN  End(literal(ZeroSpace, s, p))

\* repeat_till(1.., action_parser, "0 ") with the actions acc read so far:
\* before the first action the end literal is not tried; after it the end
\* literal is tried first, and an action is read if it does not match
RECURSIVE macro_actions(_, _, _)
macro_actions(s, p, acc) ==
    LET More(action) ==
            IF ~action.ok THEN Backtrack
            ELSE macro_actions(s, action.pos, Append(acc, action.value))
        End(end) ==
            IF Len(acc) >= 1 /\ end.ok THEN Parsed(acc, end.pos)
            ELSE More(action_parser(s, p))
    IN  End(literal(ZeroSpace, s, p))

\* macro_parser
macro_parser(s, p) ==
    LET Macro(actions) ==
            IF ~actions.ok THEN Backtrack
            ELSE Parsed([actions |-> actions.value], actions.pos)
    IN  Macro(macro_actions(s, p, <<>>))

\* repeat_till(min.., macro_parser, "0 ") with the macros acc read so far:
\* the end literal is tried first once min macros are read
RECURSIVE macros_till(_, _, _, _)
macros_till(s, p, acc, min) ==
    LET More(macro) ==
            IF ~macro.ok THEN Backtrack
            ELSE macros_till(s, macro.pos, Append(acc, macro.value), min)
        End(end) ==
            IF Len(acc) >= min /\ end.ok THEN Parsed(acc, end.pos)
            ELSE More(macro_parser(s, p))
    IN  End(literal(ZeroSpace, s, p))

\* The first two parsers of the tuple of parse_macros, with the groups read
\* so far: repeat_till(1.., macro_parser, "0 ") reads the first group and
\* fails if it does; repeat(.., repeat_till(.., macro_parser, "0 ")) reads
\* the groups after it as long as one parses.
RECURSIVE macro_groups(_, _, _)
macro_groups(s, p, groups) ==
    LET Group(group) ==
            IF group.ok THEN macro_groups(s, group.pos, Append(groups, group.value))
            ELSE IF groups = <<>> THEN Backtrack
            ELSE Parsed(groups, p)
    IN  Group(macros_till(s, p, <<>>, IF groups = <<>> THEN 1 ELSE 0))

\* "255 "
FillByte == <<50, 53, 53, Space>>

\* repeat(.., "255 "): the position after the fill bytes at p
RECURSIVE fill_bytes(_, _)
fill_bytes(s, p) ==
    LET Fill(fill) == IF ~fill.ok THEN p ELSE fill_bytes(s, fill.pos)
    IN  Fill(literal(FillByte, s, p))

\* parse_macros: the macros, the groups of macros after them, the fill
\* bytes; an error unless the whole text is consumed
parse_macros(s) ==
    LET End(groups, end) ==
            IF end = Len(s) + 1
            THEN [tag |-> "Ok", macros |-> Head(groups), extra |-> Tail(groups)]
            ELSE [tag |-> "Err"]
        Groups(groups) ==
            IF ~groups.ok THEN [tag |-> "Err"]
            ELSE End(groups.value, fill_bytes(s, groups.pos))
    IN  Groups(macro_groups(s, 1, <<>>))

----------------------------------------------------------------------------
(* Specification of the macro parser: a macro memory of well-formed macros  *)
(* is written as text, once as it is and once with bytes inserted before    *)
(* one of its actions; both texts are parsed, and action_parser is applied  *)
(* at the inserted bytes.                                                   *)

\* the largest number of macros of a group, and of actions of a macro
MaxMacros == 2
MaxMacroActions == 2

\* the bytes of the actions of the chosen macros: a key press, a key down,
\* an action with one u16 and an action with two
MacroActionBytes == <<<<8, 44>>, <<6, 225>>, <<2, 0, 200>>, <<1, 1, 2, 3, 4>>>>

\* the bytes inserted before an action: none; one or two bytes that are no
\* action kind; two bytes of which only the second is an action kind
StrayBytes == {<<>>, <<0>>, <<9>>, <<255>>, <<0, 0>>, <<9, 255>>, <<255, 0>>, <<9, 7>>}

\* The shapes of the chosen memories: `main` macros, then `extra` macros in a
\* group of their own (no such group when extra is -1), every macro of
\* `actions` actions, then `fill` bytes 255; `shift` selects the actions.
MacroShapes ==
    [main : 1..MaxMacros, extra : -1..MaxMacros, actions : 1..MaxMacroActions,
     fill : 0..1, shift : 0..(Len(MacroActionBytes) - 1)]

\* the groups of a shape: 1 is the group of the macros, 2 the group after it
GroupsOf(shape) == IF shape.extra = -1 THEN {1} ELSE {1, 2}
MacrosOf(shape, g) == IF g = 1 THEN 1..shape.main ELSE 1..shape.extra

\* the actions before which bytes can be inserted
MacroSites(shape) ==
    {site \in [group : {1, 2}, macro : 1..MaxMacros, action : 1..MaxMacroActions] :
        /\ site.group \in GroupsOf(shape)
        /\ site.macro \in MacrosOf(shape, site.group)
        /\ site.action <= shape.actions}

\* the bytes of action a of macro m of group g, after the strays of `at`
ActionBytesAt(shape, g, m, a, at) ==
    (IF at.group = g /\ at.macro = m /\ at.action = a THEN at.strays ELSE <<>>)
    \o MacroActionBytes[((g + m + a + shape.shift) % Len(MacroActionBytes)) + 1]

\* the bytes of a macro: its actions and the 0 that ends it
MacroBytesAt(shape, g, m, at) ==
    Concat([a \in 1..shape.actions |-> ActionBytesAt(shape, g, m, a, at)]) \o <<0>>

\* the bytes of a group: its macros and the 0 that ends it
GroupBytesAt(shape, g, at) ==
    IF g \notin GroupsOf(shape) THEN <<>>
    ELSE Concat([m \in 1..(IF g = 1 THEN shape.main ELSE shape.extra) |->
                    MacroBytesAt(shape, g, m, at)]) \o <<0>>

\* the bytes of the memory: the groups and the fill bytes
MemoryBytes(shape, at) ==
    GroupBytesAt(shape, 1, at) \o GroupBytesAt(shape, 2, at)
    \o [i \in 1..shape.fill |-> U8Max]

\* the bytes that precede the strays of `at`
BytesBefore(shape, at) ==
    LET none == [group |-> 0, macro |-> 0, action |-> 0, strays |-> <<>>]
        before_macro ==
            Concat([a \in 1..(at.action - 1) |->
                       ActionBytesAt(shape, at.group, at.macro, a, none)])
        before_group ==
            Concat([m \in 1..(at.macro - 1) |-> MacroBytesAt(shape, at.group, m, none)])
    IN  (IF at.group = 2 THEN GroupBytesAt(shape, 1, none) ELSE <<>>)
        \o before_group \o before_macro

\* the chosen memories: a shape, a site and the bytes inserted there (the
\* first action stands for no site when nothing is inserted)
ChosenMemories ==
    {memory \in [shape : MacroShapes,
                 at : [group : {1, 2}, macro : 1..MaxMacros,
                       action : 1..MaxMacroActions, strays : StrayBytes]] :
        /\ [group |-> memory.at.group, macro |-> memory.at.macro,
            action |-> memory.at.action] \in MacroSites(memory.shape)
        /\ memory.at.strays = <<>> =>
               memory.at.group = 1 /\ memory.at.macro = 1 /\ memory.at.action = 1}

\* the state of a chosen memory
MacroStateOf(memory) ==
    [site |-> [group |-> memory.at.group, macro |-> memory.at.macro,
               action |-> memory.at.action, strays |-> memory.at.strays,
               shape |-> memory.shape,
               pos |-> Len(WireBlock(BytesBefore(memory.shape, memory.at))) + 1],
     clean |-> WireBlock(MemoryBytes(memory.shape,
                   [group |-> 0, macro |-> 0, action |-> 0, strays |-> <<>>])),
     input |-> WireBlock(MemoryBytes(memory.shape, memory.at))]

InitMacros ==
    /\ task = "macros"
    /\ target_endian \in {"little", "big"}
    /\ \E memory \in ChosenMemories :
          /\ macro_site = MacroStateOf(memory).site
          /\ macro_clean = MacroStateOf(memory).clean
          /\ macro_input = MacroStateOf(memory).input
    /\ action_parsed = None /\ macros_clean = None /\ macros_parsed = None
    /\ FramerIdle /\ RunIdle /\ KeysIdle /\ KeymapIdle /\ SuperkeysIdle
    /\ ConnectionIdle

\* action_parser at the inserted bytes
ParseAction ==
    /\ task = "macros" /\ action_parsed = None
    /\ action_parsed' = Some(action_parser(macro_input, macro_site.pos))
    /\ UNCHANGED <<task, target_endian, macro_site, macro_clean, macro_input,
                   macros_clean, macros_parsed>>
    /\ UNCHANGED exceptMacros

\* parse_macros of the memory as it is
ParseCleanMacros ==
    /\ task = "macros" /\ macros_clean = None
    /\ macros_clean' = Some(parse_macros(macro_clean))
    /\ UNCHANGED <<task, target_endian, macro_site, macro_clean, macro_input,
                   action_parsed, macros_parsed>>
    /\ UNCHANGED exceptMacros

\* parse_macros of the memory with the inserted bytes
ParseMacros ==
    /\ task = "macros" /\ macros_parsed = None
    /\ macros_parsed' = Some(parse_macros(macro_input))
    /\ UNCHANGED <<task, target_endian, macro_site, macro_clean, macro_input,
                   action_parsed, macros_clean>>
    /\ UNCHANGED exceptMacros

NextMacros == ParseAction \/ ParseCleanMacros \/ ParseMacros

SpecMacros == InitMacros /\ [][NextMacros]_vars

----------------------------------------------------------------------------
(* Properties of the response parser and of run_command *)

\* s read as CRLF-terminated lines: ok is FALSE when s is not a sequence of
\* complete CRLF-terminated lines
RECURSIVE SplitCRLF(_)
SplitCRLF(s) ==
    IF s = <<>> THEN [ok |-> TRUE, lines |-> <<>>]
    ELSE LET i == FirstLineEnding(s, 1)
         IN  IF i = 0 \/ i = Len(s) \/ s[i] # CR THEN [ok |-> FALSE, lines |-> <<>>]
             ELSE IF s[i + 1] # LF THEN [ok |-> FALSE, lines |-> <<>>]
             ELSE LET tl == SplitCRLF(Drop(s, i + 1))
                  IN  [ok |-> tl.ok, lines |-> <<SubSeq(s, 1, i - 1)>> \o tl.lines]

RECURSIVE JoinLF(_)
JoinLF(lines) ==
    IF lines = <<>> THEN <<>>
    ELSE IF Len(lines) = 1 THEN lines[1]
    ELSE lines[1] \o <<LF>> \o JoinLF(Tail(lines))

\* s is k >= 1 complete lines, none of which is the terminator line "."
IsBodyLines(s) ==
    LET sp == SplitCRLF(s)
    IN  sp.ok /\ Len(sp.lines) >= 1 /\ \A i \in 1..Len(sp.lines) : sp.lines[i] # <<Dot>>

\* C4: a buffer of one or more complete lines without terminator parses as
\* Incomplete, and once the terminator is appended the result is the lines
\* joined by '\n'.
C4_IncompleteThenJoined ==
    IsBodyLines(input) =>
        /\ (parsed # NotRun => parsed.tag = "Incomplete")
        /\ (reparsed # NotRun =>
                reparsed = [tag |-> "Ok", out |-> JoinLF(SplitCRLF(input).lines)])

\* C5: a response of k >= 1 lines followed by the terminator yields exactly
\* those lines, in order, joined by a single '\n'; empty lines are kept.
C5_AllLinesJoinedInOrder ==
    (/\ input # <<>>
     /\ input[Len(input)] = Dot
     /\ IsBodyLines(SubSeq(input, 1, Len(input) - 1))
     /\ parsed # NotRun)
    => parsed = [tag |-> "Ok",
                 out |-> JoinLF(SplitCRLF(SubSeq(input, 1, Len(input) - 1)).lines)]

\* C6: a line that begins with '.' and has further characters does not end
\* the response and is returned as an ordinary line.
C6_OnlyExactDotLineTerminates ==
    (/\ IsBodyLines(input)
     /\ \A i \in 1..Len(SplitCRLF(input).lines) : SplitCRLF(input).lines[i] # <<>>
     /\ \E i \in 1..Len(SplitCRLF(input).lines) :
            LET l == SplitCRLF(input).lines[i] IN Len(l) >= 2 /\ l[1] = Dot)
    => /\ (parsed # NotRun => parsed.tag # "Ok")
       /\ (reparsed # NotRun /\ reparsed.tag = "Ok"
              => reparsed.out = JoinLF(SplitCRLF(input).lines))

\* C7: run_command returns ResponseStreamTerminatedPrematurely exactly when
\* the chunk stream has ended, and then the buffer holds no complete
\* response; a stream that ends never yields a response or UnexpectedResponse.
C7_PrematureExactlyAtStreamEnd ==
    /\ stream = "ended" =>
          pc = "done" /\ result = [tag |-> "ResponseStreamTerminatedPrematurely"]
    /\ result.tag = "ResponseStreamTerminatedPrematurely" =>
          /\ stream = "ended"
          /\ ~(from_utf8(buf) /\ ResponseFromStr(buf).tag = "Ok")

\* the stream ended after a complete line had been received
C7_Witness ==
    /\ stream = "ended"
    /\ result.tag = "ResponseStreamTerminatedPrematurely"
    /\ buf = <<LetterA, CR, LF>>

----------------------------------------------------------------------------
(* Properties of the key-code conversions *)

\* C1: for every 16-bit code c, encoding the key that c decodes to gives c
\* back, also when c matches no table entry and decodes to Unknown(c).
C1_CodeRoundTrip ==
    (task = "key_codes" /\ code_out # None) => code_out = code_in

\* code 2093, which two tables claim (Shift + `-` of symbols and `_` of
\* shift_symbols), has been decoded and encoded
C1_Witness ==
    /\ task = "key_codes" /\ code_out # None
    /\ code_in = Some(2093)
    /\ key_kind[1].table = "symbols"

\* C2: for every key k of every generated table, parsing the display name of
\* k succeeds and gives k.
C2_SymbolRoundTrip ==
    (task = "key_symbols" /\ from_text # None) => from_text = Some(OkKey(key_kind[1]))

\* C3: for every code c, the text Serialize writes for decode(c) is read back
\* by Deserialize as decode(c), also when decode(c) is Unknown(c).
C3_SerdeRoundTrip ==
    (task = "key_codes" /\ from_text # None) => from_text = Some(OkKey(key_kind[1]))

----------------------------------------------------------------------------
(* Properties of the keymap conversions *)

\* the offsets the LAYOUT names
LayoutOffsets ==
    UNION {{Paths(LAYOUT[side])[q][j] : j \in 1..Len(Paths(LAYOUT[side])[q])} :
              side \in {"left", "right"}, q \in 1..6}

\* what a layer of codes is expected to come back as: the code at every
\* offset of the LAYOUT, the placeholder elsewhere
ExpectedLayerData(layer) ==
    [i \in 1..KEYS_PER_LAYER |-> IF (i - 1) \in LayoutOffsets THEN Some(layer[i]) ELSE None]

\* C8: a layer of 80 codes converted to a DefyKeymapLayer and back with
\* to_keymap_data gives Some(code) at every offset of the LAYOUT and None at
\* every other offset, for every layer of a parsed keymap.
C8_LayerRoundTrip ==
    (task = "keymap" /\ layers_out # None) =>
        /\ Len(layers_out[1]) = Len(raw_layers)
        /\ \A l \in 1..Len(raw_layers) : layers_out[1][l] = ExpectedLayerData(raw_layers[l])

\* ten layers whose codes include keys of the tables and codes of no table
\* have been converted and converted back
C8_Witness ==
    /\ task = "keymap" /\ layers_out # None
    /\ Len(raw_layers) = KEYMAP_CUSTOM_COMMAND_LAYERS
    /\ raw_layers[1][1] = 0 /\ raw_layers[1][2] = 1
    /\ layers_out[1][1][72] = Some(71)
    /\ layers_out[1][1][8] = None

\* C9: to_keymap_custom_data fails with KeymapDoesNotHave10LayersError exactly
\* when the keymap does not have 10 layers; with 10 layers it returns 800
\* entries, those of layer i at 80*i .. 80*i+79, and it never panics.
C9_CustomDataShape ==
    (task = "keymap" /\ custom_data # None) =>
        LET out == custom_data[1]
            n == Len(keymap[1])
        IN  /\ out.tag # "Panic"
            /\ (out = KeymapDoesNotHave10LayersError) <=> (n # KEYMAP_CUSTOM_COMMAND_LAYERS)
            /\ n = KEYMAP_CUSTOM_COMMAND_LAYERS =>
                    /\ out.tag = "Ok"
                    /\ Len(out.data) = KEYS_PER_LAYER * KEYMAP_CUSTOM_COMMAND_LAYERS
                    /\ \A i \in 0..(n - 1) : \A j \in 0..(KEYS_PER_LAYER - 1) :
                           out.data[KEYS_PER_LAYER * i + j + 1]
                               = ExpectedLayerData(raw_layers[i + 1])[j + 1]

\* a keymap of 10 layers has been converted to 800 entries
C9_Witness ==
    /\ task = "keymap" /\ custom_data # None
    /\ Len(keymap[1]) = KEYMAP_CUSTOM_COMMAND_LAYERS
    /\ custom_data[1].tag = "Ok"
    /\ custom_data[1].data[KEYS_PER_LAYER * 9 + 1] = Some(raw_layers[10][1])

----------------------------------------------------------------------------
(* Properties of the superkey conversions *)

\* the superkeys of the parsed map take the slots before this one, which
\* holds the 0 that ends the map
SuperkeyMapEnd == 6 * Len(superkey_map[1].map) + 1

\* no action of the parsed superkeys is the NoKey code 0, and every slot
\* after the 0 that ends the map holds the fill value
CanonicalSuperkeyBlock ==
    /\ \A i \in 1..(SuperkeyMapEnd - 1) : i % 6 # 0 => superkey_slots[i] # 0
    /\ \A i \in (SuperkeyMapEnd + 1)..SUPERKEY_MAP_SIZE : superkey_slots[i] = U16Max

\* the data and its text are the values and the text of the wire block
SuperkeyBlockReproduced ==
    /\ superkey_data[1].data = superkey_slots
    /\ superkey_str[1] = superkey_block

\* C10 as stated: for every 512-slot wire block that parses, the data of the
\* parsed map holds the same 512 values in the same order, and its text
\* joined by spaces, with a trailing space, is the wire block.
C10_ParsedBlockReproduced ==
    (task = "superkeys" /\ superkey_str # None) => SuperkeyBlockReproduced

\* C10 (amended): for every 512-slot wire block that parses, in which no
\* action of a parsed superkey is 0 and every slot after the 0 that ends the
\* map holds 65535, the data of the parsed map holds the same 512 values in
\* the same order, and its text joined by spaces, with a trailing space, is
\* the wire block.
C10_CanonicalBlockReproduced ==
    (task = "superkeys" /\ superkey_str # None /\ CanonicalSuperkeyBlock)
        => SuperkeyBlockReproduced

\* a canonical block of several superkeys, with unset actions, has been
\* parsed and written back
C10_Witness ==
    /\ task = "superkeys" /\ superkey_str # None /\ CanonicalSuperkeyBlock
    /\ Len(superkey_map[1].map) >= 2
    /\ superkey_map[1].map[1].tap_hold = None
    /\ superkey_map[1].map[2].tap # None
    /\ superkey_str[1] = superkey_block

\* the data of every superkey of the map, one after the other
AllSuperkeyData == Concat([i \in 1..Len(superkey_map[1].map) |-> SuperkeyData(superkey_map[1].map[i])])

\* the number of values of a text of values joined by single spaces
ValuesIn(str) == Cardinality({i \in 1..Len(str) : str[i] = Space}) + 1

\* C11: converting a SuperkeyMap of n superkeys to the 512-slot block fails
\* with TooManySuperkeysError exactly when 6 * n + 1 > 512; otherwise it
\* yields exactly 512 values that begin with the data of every superkey of
\* the map.  This holds of to_superkey_map_data and of to_command_data.
C11_ErrorIffTooMany ==
    task = "superkey_maps" =>
        LET n == Len(superkey_map[1].map)
            TooMany == 6 * n + 1 > SUPERKEY_MAP_SIZE
        IN  /\ superkey_data # None =>
                /\ (superkey_data[1] = TooManySuperkeysError) <=> TooMany
                /\ ~TooMany =>
                    /\ superkey_data[1].tag = "Ok"
                    /\ Len(superkey_data[1].data) = SUPERKEY_MAP_SIZE
                    /\ SubSeq(superkey_data[1].data, 1, 6 * n) = AllSuperkeyData
            /\ command_data # None =>
                /\ (command_data[1] = TooManySuperkeysError) <=> TooMany
                /\ ~TooMany =>
                    /\ command_data[1].tag = "Ok"
                    /\ ValuesIn(command_data[1].text) = SUPERKEY_MAP_SIZE
                    /\ n > 0 =>
                        LET head == JoinBySpace(AllSuperkeyData)
                        IN  SubSeq(command_data[1].text, 1, Len(head)) = head

\* a map of 85 superkeys, the most that fit, has been converted by both
\* conversions
C11_Witness ==
    /\ task = "superkey_maps" /\ superkey_data # None /\ command_data # None
    /\ Len(superkey_map[1].map) = 85
    /\ superkey_data[1].tag = "Ok" /\ command_data[1].tag = "Ok"
    /\ superkey_data[1].data[511] = 0

\* the block the layout rule prescribes for a map: the five action codes of
\* each superkey followed by 0, then the 0 that ends the map, then the fill
\* value
ExpectedBlock(map) ==
    [i \in 1..SUPERKEY_MAP_SIZE |->
        LET k == ((i - 1) \div 6) + 1
            j == ((i - 1) % 6) + 1
            actions == <<map[k].tap, map[k].hold, map[k].tap_hold,
                         map[k].double_tap, map[k].double_tap_hold>>
        IN  IF i > 6 * Len(map) + 1 THEN U16Max
            ELSE IF i = 6 * Len(map) + 1 THEN 0
            ELSE IF j = 6 THEN 0
            ELSE action_to_u16(actions[j])]

\* C12: for every SuperkeyMap of n superkeys that fits the capacity, the
\* empty map included, the block written by either conversion holds the five
\* action codes of each superkey followed by 0, then the 0 that ends the map,
\* then 65535 in every later slot.
C12_BlockLayout ==
    task = "superkey_maps" =>
        /\ (superkey_data # None /\ superkey_data[1].tag = "Ok") =>
                superkey_data[1].data = ExpectedBlock(superkey_map[1].map)
        /\ (command_data # None /\ command_data[1].tag = "Ok") =>
                command_data[1].text = JoinBySpace(ExpectedBlock(superkey_map[1].map))

\* the action that the rule of C13 gives the code c
DecodedAction(c) == IF c \in {0, 1} THEN None ELSE Some(KeyKindFromU16(c))

\* the actions of a superkey, in the order of the wire block
ActionsOf(key) == <<key.tap, key.hold, key.tap_hold, key.double_tap, key.double_tap_hold>>

\* C13: the codes 1 and 0 of a parsed block decode to None, every other code
\* c to Some(decode(c)), and None is written as 1; so the text written from
\* the parsed map, parsed and written again, is the same text.  Both
\* conversions write that text.
C13_DecodeEncodeIdempotent ==
    task = "superkeys" =>
        /\ (superkey_map # None /\ superkey_map[1].tag = "Ok") =>
                \A k \in 1..Len(superkey_map[1].map) : \A j \in 1..5 :
                    ActionsOf(superkey_map[1].map[k])[j]
                        = DecodedAction(superkey_slots[6 * (k - 1) + j])
        /\ superkey_data # None =>
                /\ superkey_data[1].tag = "Ok"
                /\ \A k \in 1..Len(superkey_map[1].map) : \A j \in 1..5 :
                       ActionsOf(superkey_map[1].map[k])[j] = None
                           => superkey_data[1].data[6 * (k - 1) + j] = 1
        /\ (superkey_again # None /\ superkey_map # None) => superkey_map[1].tag = "Ok"
        /\ (superkey_again # None /\ superkey_str # None) => superkey_str = superkey_again
        /\ (superkey_str # None /\ command_data # None) =>
                /\ command_data[1].tag = "Ok"
                /\ command_data[1].text \o <<Space>> = superkey_str[1]

\* a block that is not reproduced (it holds the action code 0 and other
\* values than the fill value at its end) has been parsed and written twice
C13_Witness ==
    /\ task = "superkeys" /\ superkey_again # None /\ superkey_str # None
    /\ superkey_slots[1] = 0 /\ superkey_slots[SUPERKEY_MAP_SIZE] # U16Max
    /\ superkey_str[1] # WireBlock(superkey_slots)
    /\ superkey_str = superkey_again

----------------------------------------------------------------------------
(* Properties of the macro parser *)

\* one byte that is no action kind has been inserted before an action
OneStrayByte == Len(macro_site.strays) = 1 /\ macro_site.strays[1] \notin 1..8

\* the site is the first action of the first macro of the memory
FirstActionOfMemory == macro_site.group = 1 /\ macro_site.macro = 1 /\ macro_site.action = 1

\* C14 as stated: whenever a byte that is none of 1..8 (0 or 9..255) stands
\* before the kind of an action, at any action of any macro, parse_macros
\* yields what it yields for the memory without that byte.
C14_StrayByteDiscarded ==
    (task = "macros" /\ macros_parsed # None /\ macros_clean # None /\ OneStrayByte)
        => macros_parsed = macros_clean

\* C14 (amended): whenever a byte of 9..255 stands before the kind of an
\* action, at any action of any macro, or the byte 0 stands before the kind
\* of the first action of the first macro, parse_macros yields what it
\* yields for the memory without that byte.
C14_StrayByteDiscardedUnlessTerminator ==
    (task = "macros" /\ macros_parsed # None /\ macros_clean # None /\ OneStrayByte
        /\ (macro_site.strays[1] = 0 => FirstActionOfMemory))
        => macros_parsed = macros_clean

\* the byte 255 before a later action of a macro of the second group, and
\* the byte 0 before the first action of the memory, have been discarded
C14_Witness ==
    /\ task = "macros" /\ macros_parsed # None /\ macros_clean # None /\ OneStrayByte
    /\ macros_parsed = macros_clean /\ macros_parsed[1].tag = "Ok"
    /\ \/ macro_site.strays[1] = 0 /\ FirstActionOfMemory
       \/ macro_site.strays[1] = U8Max /\ macro_site.group = 2 /\ macro_site.action = 2
    /\ Len(macros_parsed[1].macros) = MaxMacros

\* C15: when the byte read as the kind of an action and the byte after it
\* are both none of 1..8, action_parser fails and yields no action.
C15_AtMostOneByteSkipped ==
    (task = "macros" /\ action_parsed # None /\ Len(macro_site.strays) = 2
        /\ macro_site.strays[1] \notin 1..8 /\ macro_site.strays[2] \notin 1..8)
        => action_parsed[1] = Backtrack

\* action_parser has failed at two bytes that are no action kind, the second
\* of them followed by an action
C15_Witness ==
    /\ task = "macros" /\ action_parsed # None
    /\ macro_site.strays = <<9, 255>>
    /\ action_parsed[1] = Backtrack

\* C16: every parse of a text ends with Ok or Err, none panics; the parsed
\* superkeys are numbered position + 1 (positions from 0) and the number
\* fits eight bits.
C16_ParsersNeverPanic ==
    (task = "superkey_texts" /\ superkey_map # None)
        => /\ superkey_map[1].tag \in {"Ok", "Err"}
           /\ superkey_map[1].tag = "Ok" =>
                  \A i \in 1..Len(superkey_map[1].map) :
                      /\ superkey_map[1].map[i].macro_number = i
                      /\ superkey_map[1].map[i].macro_number <= U8Max

----------------------------------------------------------------------------
(* Properties of the names and of the codes of the generated keys *)

\* the arms of an association list grouped: each pattern with the values of
\* all the arms that have it
RECURSIVE ArmsGrouped(_, _, _)
ArmsGrouped(arms, lo, hi) ==
    IF lo > hi THEN <<>>
    ELSE IF lo = hi THEN (arms[lo].pat :> {arms[lo].val})
    ELSE LET mid == (lo + hi) \div 2
             Merged(f, g) ==
                 [x \in DOMAIN f \cup DOMAIN g |->
                     (IF x \in DOMAIN f THEN f[x] ELSE {})
                         \cup (IF x \in DOMAIN g THEN g[x] ELSE {})]
         IN  Merged(ArmsGrouped(arms, lo, mid), ArmsGrouped(arms, mid + 1, hi))

\* the arms of from_str of all the tables
AllFromStrArms == Concat([t \in 1..Len(KeyTables) |-> FromStrArms(KeyTables[t])])

\* for every name that some from_str matches, the keys of its arms
KeysOfName == ArmsGrouped(AllFromStrArms, 1, Len(AllFromStrArms))

\* for every key, the names of its arms
NamesOfKey ==
    ArmsGrouped([i \in 1..Len(AllFromStrArms) |->
                    [pat |-> AllFromStrArms[i].val, val |-> AllFromStrArms[i].pat]],
                1, Len(AllFromStrArms))

\* C17: no name that parse_symbol accepts (the display name or the debug
\* name of a key, lower-cased and without spaces) is the name of two keys,
\* of one table or of two: once the display name of a key has been parsed,
\* every name of the key is a name of that key alone.
C17_NamesUnambiguous ==
    (task = "key_symbols" /\ from_text # None)
        => \A n \in NamesOfKey[key_kind[1]] : KeysOfName[n] = {key_kind[1]}

\* for every code that some table key has, the keys that have it
KeysOfCode ==
    ArmsGrouped([i \in 1..Len(AllVariants) |->
                    [pat |-> Discriminant[AllVariants[i].key], val |-> AllVariants[i].key]],
                1, Len(AllVariants))

\* C18: the code of a key of a generated table is the code of no other key
\* of any table, and decoding the code of a key yields the key.
C18_CodesUnshared ==
    (task = "key_symbols" /\ key_decoded # None)
        => /\ KeysOfCode[code_out[1]] = {key_kind[1]}
           /\ key_decoded = key_kind

----------------------------------------------------------------------------
(* Properties of run_command on bytes that are not UTF-8 *)

\* a step of run_command that has received a chunk or an input report
ChunkReceived ==
    /\ task \in {"run_command", "hid_run_command"} /\ pc = "reading"
    /\ stream' = stream /\ result'.tag # "RecievingResponse"

\* s is the beginning of t
IsPrefixOf(s, t) == Len(s) <= Len(t) /\ SubSeq(t, 1, Len(s)) = s

\* C19: whenever the accumulated bytes are not UTF-8 after a chunk (serial)
\* or an input report (HID), run_command returns nothing, keeps the bytes
\* and reads on; whenever they are UTF-8, the whole of them is parsed, so a
\* response holds the code points of the whole buffer.
C19_InvalidUtf8ReadsOn ==
    [][ChunkReceived =>
          /\ IsPrefixOf(buf, buf')
          /\ ~from_utf8(buf') =>
                 pc' = "reading" /\ result' = NotRun /\ retries' = retries + 1
          /\ (from_utf8(buf') /\ ResponseFromStr(buf').tag = "Ok") =>
                 pc' = "done" /\ result' = [tag |-> "Ok", out |-> ResponseFromStr(buf').out]
          /\ result'.tag = "Ok" => from_utf8(buf')]_vars

\* a response with a code point of two bytes has been returned over HID
\* after the bytes were found not to be UTF-8: the two bytes came in
\* different input reports
C19_Witness ==
    /\ task = "hid_run_command" /\ retries = 1
    /\ buf = <<Utf8Lead, Utf8Cont, CR, LF, Dot>>
    /\ result = [tag |-> "Ok", out |-> <<Utf8Lead, Utf8Cont>>]

----------------------------------------------------------------------------
(* Properties of response_parser on responses back to back *)

\* the lines of a response joined by '\n'
RECURSIVE LinesJoined(_)
LinesJoined(lines) ==
    IF Len(lines) = 1 THEN lines[1]
    ELSE lines[1] \o <<LF>> \o LinesJoined(Tail(lines))

\* C20: of two complete responses back to back, response_parser returns the
\* first and consumes the input up to and including the terminator of the
\* first; the second response is the input left, unchanged.
C20_FirstResponseOnly ==
    (task = "responses" /\ parsed # NotRun)
        => parsed = [tag |-> "Ok",
                     out |-> LinesJoined(responses[1].lines),
                     rest |-> ResponseText(responses[2], 1)]

\* the byte 0 has been inserted before an action
ZeroAtBoundary == macro_site.strays = <<0>>

\* the groups of a parsed memory: the macros, then the groups after them
GroupsParsed(out) == <<out.macros>> \o out.extra

\* the macro of the site in the parse of the memory as it is
CleanMacroOfSite == GroupsParsed(macros_clean[1])[macro_site.group][macro_site.macro]

\* the macro of the site in the parse of the memory with the inserted byte,
\* None when the parse has no macro at that place
MacroOfSite ==
    LET groups == GroupsParsed(macros_parsed[1])
    IN  IF Len(groups) >= macro_site.group
            /\ Len(groups[macro_site.group]) >= macro_site.macro
        THEN Some(groups[macro_site.group][macro_site.macro])
        ELSE None

\* the memory as it is parses into the macros it was written from: a 0 in
\* the data of an action (2 0 200) ends no macro
CleanMemoryParsed ==
    /\ macros_clean[1].tag = "Ok"
    /\ Len(macros_clean[1].macros) = macro_site.shape.main
    /\ Len(macros_clean[1].extra) = (IF macro_site.shape.extra = -1 THEN 0 ELSE 1)
    /\ \A g \in 1..Len(GroupsParsed(macros_clean[1])) :
           \A m \in 1..Len(GroupsParsed(macros_clean[1])[g]) :
               Len(GroupsParsed(macros_clean[1])[g][m].actions) = macro_site.shape.actions

\* C25 as stated: a 0 in the data of an action ends no macro, and a 0 where
\* an action would begin ends the macro there, so that the macro holds the
\* actions before the 0, none when the 0 stands where its first action
\* would begin.
C25_ZeroEndsMacro ==
    (task = "macros" /\ macros_parsed # None /\ macros_clean # None /\ ZeroAtBoundary) =>
        /\ CleanMemoryParsed
        /\ macros_parsed[1].tag = "Ok"
        /\ MacroOfSite # None =>
               MacroOfSite[1].actions
                   = SubSeq(CleanMacroOfSite.actions, 1, macro_site.action - 1)

\* C25 (amended): a 0 in the data of an action ends no macro, and a 0 after
\* a complete action of a macro ends the macro there.  A 0 where the first
\* action of a macro would begin ends no macro: before the first macro of
\* the memory it is skipped, elsewhere it ends the group of macros.
C25_ZeroEndsMacroAfterAnAction ==
    (task = "macros" /\ macros_parsed # None /\ macros_clean # None /\ ZeroAtBoundary) =>
        /\ CleanMemoryParsed
        /\ macros_parsed[1].tag = "Ok"
        /\ macro_site.action > 1 =>
               /\ MacroOfSite # None
               /\ MacroOfSite[1].actions
                      = SubSeq(CleanMacroOfSite.actions, 1, macro_site.action - 1)
        /\ (macro_site.action = 1 /\ FirstActionOfMemory) => macros_parsed = macros_clean
        /\ (macro_site.action = 1 /\ ~FirstActionOfMemory) =>
               /\ MacroOfSite = None
               /\ Len(GroupsParsed(macros_parsed[1])[macro_site.group]) = macro_site.macro - 1

\* a 0 after the first action of a macro of two actions, the first of them
\* with a 0 in its data, has ended the macro after that action
C25_Witness ==
    /\ task = "macros" /\ macros_parsed # None /\ macros_clean # None /\ ZeroAtBoundary
    /\ macro_site.action = 2 /\ macro_site.macro = 2
    /\ macros_parsed[1].tag = "Ok"
    /\ MacroOfSite # None
    /\ Len(MacroOfSite[1].actions) = 1
    /\ MacroOfSite[1].actions[1].action = "Unknown"
    /\ MacroOfSite[1].actions[1].kind = 2
    /\ Len(CleanMacroOfSite.actions) = 2

\* the space that ends the value that starts at p
ValueEnd(s, p) == MinOf({q \in p..Len(s) : s[q] = Space})

\* the value that starts at p
ValueAt(s, p) == FromDec(SubSeq(s, p, ValueEnd(s, p) - 1))

\* the start of the n-th value after the one that starts at p
RECURSIVE ValueAfter(_, _, _)
ValueAfter(s, p, n) == IF n = 0 THEN p ELSE ValueAfter(s, ValueEnd(s, p) + 1, n - 1)

\* the u16s two bytes can make, whatever the byte order
U16sOf(first, second) == {first + 256 * second, 256 * first + second}

\* the start of the kind of the action read at the site: the byte there, or
\* the byte after it when that one is no kind
KindAtSite ==
    IF ValueAt(macro_input, macro_site.pos) \in 1..8 THEN macro_site.pos
    ELSE ValueAfter(macro_input, macro_site.pos, 1)

\* C23: after a kind of 1..8 action_parser reads a payload of fixed size: one
\* byte for the kinds 6, 7 and 8, decoded through the key-code table into
\* KeyDown, KeyUp and Press; four bytes (two u16) for the kind 1 and two
\* bytes (one u16) for the kinds 2..5, both kept as Unknown with that kind.
C23_FixedPayload ==
    (task = "macros" /\ action_parsed # None
        /\ ValueAt(macro_input, KindAtSite) \in 1..8) =>
        LET kind == ValueAt(macro_input, KindAtSite)
            Byte(i) == ValueAt(macro_input, ValueAfter(macro_input, KindAtSite, i))
            out == action_parsed[1]
        IN  /\ out.ok
            /\ kind = 6 => out.value = [action |-> "KeyDown", key |-> KeyKindFromU16(Byte(1))]
            /\ kind = 7 => out.value = [action |-> "KeyUp", key |-> KeyKindFromU16(Byte(1))]
            /\ kind = 8 => out.value = [action |-> "Press", key |-> KeyKindFromU16(Byte(1))]
            /\ kind \in 6..8 => out.pos = ValueAfter(macro_input, KindAtSite, 2)
            /\ kind = 1 =>
                   /\ out.value.action = "Unknown" /\ out.value.kind = kind
                   /\ out.value.data.tag = "TwoU16" /\ Len(out.value.data.data) = 2
                   /\ out.value.data.data[1] \in U16sOf(Byte(1), Byte(2))
                   /\ out.value.data.data[2] \in U16sOf(Byte(3), Byte(4))
                   /\ out.pos = ValueAfter(macro_input, KindAtSite, 5)
            /\ kind \in 2..5 =>
                   /\ out.value.action = "Unknown" /\ out.value.kind = kind
                   /\ out.value.data.tag = "OneU16" /\ Len(out.value.data.data) = 1
                   /\ out.value.data.data[1] \in U16sOf(Byte(1), Byte(2))
                   /\ out.pos = ValueAfter(macro_input, KindAtSite, 3)

\* action_parser has read the kind 1 and its four bytes, with the first byte
\* of a pair as the low byte of its u16
C23_Witness ==
    /\ task = "macros" /\ action_parsed # None /\ action_parsed[1].ok
    /\ ValueAt(macro_input, KindAtSite) = 1
    /\ action_parsed[1].value.data.data = <<1 + 256 * 2, 3 + 256 * 4>>
    /\ action_parsed[1].pos = ValueAfter(macro_input, KindAtSite, 5)

----------------------------------------------------------------------------
(* Properties of the derived keys of the key tables *)

\* the declared keys of the tables that derive keys, each with its code
BaseKeys ==
    Concat([t \in 1..Len(KeyTables) |->
        LET table == KeyTables[t]
            codes == BaseCodes(table.keys)
        IN  IF ~(table.with_modifiers \/ table.with_dual_functions) THEN <<>>
            ELSE Concat([i \in 1..Len(table.keys) |->
                    IF codes[i] = None THEN <<>>
                    ELSE <<[table |-> table, key |-> table.keys[i], code |-> codes[i][1]]>>])])

\* what is added to the code of the base key for `with`, a modifier set or a
\* dual-function modifier
DerivedOffset(kind, with) ==
    IF kind = "Modifiers" THEN ModifierSum(with) ELSE DualFunctionValue[with[1]]

\* the keys a declared key is to derive: one for every non-empty modifier
\* set and one for every dual-function modifier, as its table asks
DerivedOf(base) ==
    LET Derived(kind, with) ==
            [key |-> KeyKindOf(base.table, VariantId(base.key, kind, with)),
             sum |-> base.code + DerivedOffset(kind, with)]
    IN  (IF base.table.with_modifiers
         THEN [j \in 1..(Len(ModifierPowerset) - 1) |->
                  Derived("Modifiers", ModifierPowerset[j + 1])]
         ELSE <<>>)
        \o (IF base.table.with_dual_functions
            THEN [j \in 1..Len(DualFunctionValues) |->
                     Derived("Dual", <<DualFunctionValues[j]>>)]
            ELSE <<>>)

DerivedKeys == Concat([i \in 1..Len(BaseKeys) |-> DerivedOf(BaseKeys[i])])

\* the code of the declared keys, by table and name
BaseCodeOf ==
    MatchTable([i \in 1..Len(BaseKeys) |->
                   [pat |-> <<BaseKeys[i].table.name, BaseKeys[i].key.name>>,
                    val |-> BaseKeys[i].code]],
               1, Len(BaseKeys))

\* the pattern of the arm of `match code` that yields each key
ArmOfKey ==
    MatchTable([i \in 1..Len(FromU16Arms) |->
                   [pat |-> FromU16Arms[i].val, val |-> FromU16Arms[i].pat]],
               1, Len(FromU16Arms))

\* every derived key is a variant of its enum and has an arm of `match code`
\* exactly when its sum fits 16 bits, and then with the sum as its code
DerivedKeysStored ==
    \A i \in 1..Len(DerivedKeys) :
        LET d == DerivedKeys[i]
        IN  /\ (d.key \in DOMAIN Discriminant) <=> (d.sum <= U16Max)
            /\ (d.key \in DOMAIN ArmOfKey) <=> (d.sum <= U16Max)
            /\ d.key \in DOMAIN Discriminant => Discriminant[d.key] = d.sum
            /\ d.key \in DOMAIN ArmOfKey => ArmOfKey[d.key] = d.sum

\* the key is derived from a declared key
IsDerived(k) == k.table # "Unknown" /\ k.id.kind \in {"Modifiers", "Dual"}

\* C24: a key derived from a base key of code b by a non-empty modifier set
\* or a dual-function modifier of offset o is in the table exactly when
\* b + o <= 65535, and its code is then b + o; a sum that does not fit is
\* left out and no wrapped value is stored.
C24_DerivedCodes ==
    (task = "key_symbols" /\ code_out # None) =>
        /\ DerivedKeysStored
        /\ IsDerived(key_kind[1]) =>
               LET k == key_kind[1]
                   sum == BaseCodeOf[<<k.table, k.id.base>>]
                              + DerivedOffset(k.id.kind, k.id.with)
               IN  sum <= U16Max /\ code_out[1] = sum

\* a key derived from Shutdown = 20865 of miscellaneous, whose sums with the
\* dual-function modifiers do not fit, has been encoded: Ctrl + Os + Shutdown
C24_Witness ==
    /\ task = "key_symbols" /\ code_out # None
    /\ IsDerived(key_kind[1])
    /\ key_kind[1].table = "miscellaneous"
    /\ key_kind[1].id.with = <<"Ctrl", "Os">>
    /\ code_out[1] = 20865 + 256 + 4096
    /\ \E i \in 1..Len(DerivedKeys) :
           /\ DerivedKeys[i].key.table = "miscellaneous"
           /\ DerivedKeys[i].key.id.base = key_kind[1].id.base
           /\ DerivedKeys[i].sum > U16Max

----------------------------------------------------------------------------
(* Properties of the padding of a superkey text *)

\* the position of the 0 that ends the map of a padded text: the first
\* value after a superkey that is 0
PaddedMapEnd ==
    MinOf({i \in 1..Len(superkey_slots) : i % 6 = 1 /\ i > 1 /\ superkey_slots[i] = 0})

\* C22: whatever values follow the 0 that ends the map, the text parses, and
\* to the superkeys before that 0.
C22_PaddingIgnored ==
    (task = "superkey_padding" /\ superkey_map # None) =>
        /\ superkey_map[1].tag = "Ok"
        /\ Len(superkey_map[1].map) = (PaddedMapEnd - 1) \div 6
        /\ \A k \in 1..Len(superkey_map[1].map) : \A j \in 1..5 :
               ActionsOf(superkey_map[1].map[k])[j]
                   = DecodedAction(superkey_slots[6 * (k - 1) + j])

----------------------------------------------------------------------------
(* Properties of the LAYOUT *)

\* the rows of the LAYOUT constant as it lists them
LayoutRows ==
    <<LAYOUT.left.row_1, LAYOUT.left.row_2, LAYOUT.left.row_3, LAYOUT.left.row_4,
      LAYOUT.left.thumb_cluster.top, LAYOUT.left.thumb_cluster.bottom,
      LAYOUT.right.row_1, LAYOUT.right.row_2, LAYOUT.right.row_3, LAYOUT.right.row_4,
      LAYOUT.right.thumb_cluster.top, LAYOUT.right.thumb_cluster.bottom>>

\* every offset the LAYOUT lists, in the order it lists them
ListedOffsets == Concat(LayoutRows)

\* C21: the offsets of the LAYOUT are pairwise distinct, lie in 0..79 and are
\* 70 in number; get_key_by_index gives Some for exactly these offsets and
\* None for the other 10 offsets of a layer and for every index from 80 on,
\* in every layer of a parsed keymap.
C21_LayoutOffsetsAndIndexes ==
    (task = "keymap" /\ keymap # None) =>
        LET listed == {ListedOffsets[i] : i \in 1..Len(ListedOffsets)}
        IN  /\ Len(ListedOffsets) = 70
            /\ \A i, j \in 1..Len(ListedOffsets) :
                   ListedOffsets[i] = ListedOffsets[j] => i = j
            /\ listed \subseteq 0..(KEYS_PER_LAYER - 1)
            /\ Cardinality((0..(KEYS_PER_LAYER - 1)) \ listed) = 10
            /\ \A l \in 1..Len(keymap[1]) : \A index \in 0..U8Max :
                   (get_key_by_index(keymap[1][l], index) # None) <=> (index \in listed)

\* a parsed keymap of ten layers answers with a key at offset 79 and at
\* offset 68, and with None at offset 7 and at index 80
C21_Witness ==
    /\ task = "keymap" /\ keymap # None
    /\ Len(keymap[1]) = KEYMAP_CUSTOM_COMMAND_LAYERS
    /\ get_key_by_index(keymap[1][10], 79) # None
    /\ get_key_by_index(keymap[1][1], 68) = Some(KeyKindFromU16(raw_layers[1][69]))
    /\ get_key_by_index(keymap[1][1], 7) = None
    /\ get_key_by_index(keymap[1][1], KEYS_PER_LAYER) = None

----------------------------------------------------------------------------
(* Properties of run_command on one connection *)

\* the value of a call that is waiting for bytes after the last byte
Waiting == [tag |-> "Waiting"]

\* what a call returns that reads the stream w one byte at a time, the
\* first n - 1 bytes read without a return
RECURSIVE ByteWise(_, _)
ByteWise(w, n) ==
    IF n > Len(w) THEN Waiting
    ELSE LET o == ConnectionLoopOutcome(SubSeq(w, 1, n))
         IN  IF o.tag = "Return" THEN o.value ELSE ByteWise(w, n + 1)

\* what the k-th call returns on a connection of its own
OnFreshConnection(k) == ByteWise(AnswerText(answers[k]), 1)

\* the k-th call has been made and its answer is the empty response
EmptyResponseSent(k) ==
    /\ task \in Connections
    /\ Len(written) >= k /\ answers[k] = <<>>

\* C26: a call that the device answers with the empty response (the
\* terminator line only) eventually returns the empty string.
C26_EmptyResponseReturned ==
    \A k \in 1..MaxCalls :
        (k <= Len(answers) /\ EmptyResponseSent(k))
            ~> (Len(returned) >= k /\ returned[k] = [tag |-> "Ok", out |-> <<>>])

\* the call in progress on a connection has read every byte the device sent
AllRead == task \in Connections /\ pc = "reading" /\ wire = <<>>

\* C27: the outcome of the first call on a connection does not depend on how
\* the bytes of the response are split into chunks or input reports: the
\* call returns what a call that reads byte by byte returns, and it has read
\* every byte without returning only if that call has too.
C27_ChunkingIndependent ==
    task \in Connections =>
        /\ Len(returned) >= 1 => returned[1] = OnFreshConnection(1)
        /\ (AllRead /\ Len(written) = 1) => OnFreshConnection(1) = Waiting

\* a response with a code point of two bytes and a line ending has been
\* returned over the serial port after the bytes were split inside the code
\* point and inside the line ending
C27_Witness ==
    /\ task = "serial_connection" /\ retries = 1
    /\ answers[1] = <<<<Utf8Lead, Utf8Cont>>>>
    /\ returned = <<[tag |-> "Ok", out |-> <<Utf8Lead, Utf8Cont>>]>>
    /\ wire = <<CR, LF>>

\* C30: every call on a serial connection returns what it would return on a
\* connection of its own, whatever bytes the calls before it left unread and
\* however the bytes are split into chunks.
C30_EarlierBytesIgnored ==
    task = "serial_connection" =>
        /\ \A k \in 1..Len(returned) : returned[k] = OnFreshConnection(k)
        /\ AllRead => OnFreshConnection(Len(written)) = Waiting

----------------------------------------------------------------------------
(* Properties of the commands that write to the keyboard *)

\* the keymap or the superkey map at hand fails the validation of its command
ValidationFails ==
    \/ task = "keymap" /\ keymap # None
       /\ Len(keymap[1]) # KEYMAP_CUSTOM_COMMAND_LAYERS
    \/ task = "superkey_maps"
       /\ 6 * Len(superkey_map[1].map) + 1 > SUPERKEY_MAP_SIZE

\* C28: apply_custom_keymap of a keymap that does not have 10 layers and
\* apply_superkeys of a map that does not fit the 512 slots call run_command
\* never: nothing is written to the connection, and the error is returned.
C28_NothingSentOnValidationFailure ==
    ValidationFails =>
        /\ written = <<>>
        /\ returned # <<>> =>
               returned = <<IF task = "keymap" THEN KeymapDoesNotHave10LayersError
                            ELSE TooManySuperkeysError>>

\* apply_superkeys has returned its error for a map of 86 superkeys, and
\* nothing was written
C28_Witness ==
    /\ task = "superkey_maps"
    /\ Len(superkey_map[1].map) = 86
    /\ returned = <<TooManySuperkeysError>> /\ written = <<>>

----------------------------------------------------------------------------
(* Properties of the round trip of constructed maps *)

\* an action that is unset, or a key whose code is neither 0 nor 1
PlainAction(action) == action = None \/ U16FromKeyKind(action[1]) \notin {0, 1}

\* the constructed map fits the memory and has plain actions only
PlainMap ==
    /\ 6 * Len(superkey_map[1].map) + 1 <= SUPERKEY_MAP_SIZE
    /\ \A i \in 1..Len(superkey_map[1].map) :
           \A j \in 1..5 : PlainAction(ActionsOf(superkey_map[1].map[i])[j])

\* C29: the text written for a map of at most 85 superkeys with plain
\* actions, the empty map included, parses back to the superkeys of the
\* map: as many, with the same actions, in the same order.
C29_WrittenMapParsesBack ==
    (task = "superkey_maps" /\ superkey_again # None /\ PlainMap) =>
        LET back == superkey_again[1].parsed
            map == superkey_map[1].map
        IN  /\ back.tag = "Ok"
            /\ Len(back.map) = Len(map)
            /\ \A i \in 1..Len(map) : ActionsOf(back.map[i]) = ActionsOf(map[i])

====
